---- MODULE Spec2Model ----
(***************************************************************************)
(* State-machine model of the sympto-backend REST API: the assessment      *)
(* routes behind the in-memory response cache, the AI client, the token    *)
(* service and the User persistence hooks.                                 *)
(*                                                                         *)
(* Time is the value of Date.now() in seconds (the source's millisecond    *)
(* constants are divided by 1000); it advances in steps of TickS.          *)
(* Documents are records; an absent document or object is the record NONE, *)
(* an absent string is "".                                                 *)
(***************************************************************************)
EXTENDS Integers, Sequences, FiniteSets, TLC

VARIABLES
    now,          \* Date.now()
    users,        \* the User collection: _id -> stored document
    assessments,  \* the Assessment collection: _id -> stored document
    cache,        \* middleware/cache.js `cache` Map: key -> {data, timestamp}
    resp,         \* the request handled in this step and the response sent to it
    analyzedAt,   \* history: when the last analysis stored for an assessment succeeded
    service,      \* which copy of the AI service answers aiService.analyzeAssessment
    issued,       \* history: the tokens issued to clients, in order
    inflight,     \* the requests whose handler is suspended at an await
    consents,     \* the Consent collection: userId -> stored document
    attempts,     \* middleware/security.js `attempts` Map of the sensitive limiter
    passed        \* history: when the sensitive limiter passed a request of an IP

vars == <<now, users, assessments, cache, resp, analyzedAt, service, issued, inflight,
          consents, attempts, passed>>

NONE == [none |-> TRUE]

-----------------------------------------------------------------------------
(* Bounds of the model                                                     *)

MaxTicks == 2

TickS == 150

\* generateSecureToken() is called at most MaxTokens times.
MaxTokens == 3

Users == {"u1", "u2"}

\* A route touches the one document its request names and documents do not
\* refer to each other: the model follows the requests about one id.
Ids == {"a1"}

-----------------------------------------------------------------------------
(* utils/encryption.js                                                     *)

\* The key the process runs with, and a key some stored envelope may have
\* been written with before a restart.
ENCRYPTION_KEY == "k1"
Keys == {"k1", "k0"}
IVs == {"iv1", "iv2"}

\* A string is a sequence of UTF-16 code units. HighSurrogate and
\* LowSurrogate are the two halves of one astral character; either of them
\* standing alone is not a character.
HighSurrogate == "\\uD83D"
LowSurrogate == "\\uDE00"
Astral == "U+1F600"
Replacement == "\\uFFFD"

\* A string value is either a text that is not of the iv:authTag:ciphertext
\* form, or an envelope: the key that opens it, the IV it was sealed with and
\* the bytes sealed in it. A damaged envelope is one no key opens.
Plain(s) == [kind |-> "plain", text |-> s]
Envelope(key, iv, inner) == [kind |-> "env", key |-> key, iv |-> iv, inner |-> inner]
Damaged(envelope) == [envelope EXCEPT !.key = "none"]

isEncryptedValue(value) == value # NONE /\ value.kind = "env"

\* cipher.update(text, 'utf8', ...): the characters of the string, a lone
\* surrogate encoded as U+FFFD.
RECURSIVE utf8Encode(_)
utf8Encode(units) ==
    IF units = << >> THEN << >>
    ELSE IF Len(units) > 1 /\ units[1] = HighSurrogate /\ units[2] = LowSurrogate
         THEN <<Astral>> \o utf8Encode(SubSeq(units, 3, Len(units)))
    ELSE IF units[1] \in {HighSurrogate, LowSurrogate}
         THEN <<Replacement>> \o utf8Encode(Tail(units))
    ELSE <<units[1]>> \o utf8Encode(Tail(units))

\* decipher.update(..., 'hex', 'utf8'): the code units of the characters.
RECURSIVE utf8Decode(_)
utf8Decode(chars) ==
    IF chars = << >> THEN << >>
    ELSE IF chars[1] = Astral
         THEN <<HighSurrogate, LowSurrogate>> \o utf8Decode(Tail(chars))
    ELSE <<chars[1]>> \o utf8Decode(Tail(chars))

\* An envelope is a string of hex digits and colons: its bytes are its code
\* units.
Bytes(text) == IF text.kind = "plain" THEN Plain(utf8Encode(text.text)) ELSE text
FromBytes(bytes) == IF bytes.kind = "plain" THEN Plain(utf8Decode(bytes.text)) ELSE bytes

\* encryptData draws a fresh random IV per call: the IV is an argument here.
\* Any non-empty string is sealed, an envelope included.
encryptData(text, iv) ==
    IF text = NONE THEN text
    ELSE IF text.kind = "plain" /\ text.text = << >> THEN text
    ELSE Envelope(ENCRYPTION_KEY, iv, Bytes(text))

\* The body of decryptData's try block: decipher.final() throws when the
\* authentication tag does not verify under the key of the process.
decipher(encryptedText) ==
    IF encryptedText.key = ENCRYPTION_KEY
    THEN [thrown |-> FALSE, value |-> FromBytes(encryptedText.inner)]
    ELSE [thrown |-> TRUE, value |-> NONE]

decryptData_rethrows(encryptedText) ==
    IF encryptedText = NONE THEN encryptedText
    ELSE IF ~isEncryptedValue(encryptedText) THEN encryptedText
    ELSE IF decipher(encryptedText).thrown THEN [kind |-> "thrown"]
         ELSE decipher(encryptedText).value

\* A value that is no envelope is returned as it is; so is one the key does
\* not open, by the catch block.
decryptData(encryptedText) ==
    IF encryptedText = NONE THEN encryptedText
    ELSE IF ~isEncryptedValue(encryptedText) THEN encryptedText
    ELSE IF decipher(encryptedText).thrown THEN encryptedText
         ELSE decipher(encryptedText).value

\* A number, and the strings of decimal digits.
Num(n) == [kind |-> "number", value |-> n]
NaN == [kind |-> "NaN"]
DigitChar == <<"1", "2", "3", "4", "5", "6", "7", "8", "9">>
DigitValue(unit) ==
    IF unit = "0" THEN 0 ELSE CHOOSE d \in DOMAIN DigitChar : DigitChar[d] = unit
isDigit(unit) == unit = "0" \/ \E d \in DOMAIN DigitChar : DigitChar[d] = unit

\* Number.prototype.toString of a whole number; a string is its own
\* toString().
RECURSIVE ToDigits(_)
ToDigits(n) ==
    IF n = 0 THEN <<"0">>
    ELSE IF n < 10 THEN <<DigitChar[n]>>
    ELSE ToDigits(n \div 10) \o (IF n % 10 = 0 THEN <<"0">> ELSE <<DigitChar[n % 10]>>)

toString(value) == IF value.kind = "number" THEN Plain(ToDigits(value.value)) ELSE value

\* The first code units of an envelope's string form: the first hex digits
\* of its IV, any 12 random bytes.
ivHex(iv) == IF iv = "iv1" THEN <<"1", "2", "c">> ELSE <<"a", "7", "0">>

\* Number.parseFloat: the number written by the longest prefix of the
\* string that is one, NaN when there is none.  The strings followed hold
\* no sign, decimal point or exponent.
RECURSIVE parsePrefix(_, _, _)
parsePrefix(units, acc, seen) ==
    IF units # << >> /\ isDigit(Head(units))
    THEN parsePrefix(Tail(units), 10 * acc + DigitValue(Head(units)), TRUE)
    ELSE IF seen THEN Num(acc) ELSE NaN

parseFloat(value) ==
    IF value.kind = "number" THEN value
    ELSE parsePrefix(IF value.kind = "env" THEN ivHex(value.iv) ELSE value.text, 0, FALSE)

\* encryptHealthData and decryptHealthData on one of the five sensitive
\* fields, which are all treated alike.
encryptHealthData(data, iv) ==
    IF data.hemoglobin = NONE THEN data
    ELSE [data EXCEPT !.hemoglobin = encryptData(toString(@), iv)]

decryptHealthData(data) ==
    IF data.hemoglobin = NONE THEN data
    ELSE LET decrypted == decryptData(data.hemoglobin)
             numValue == parseFloat(decrypted)
         IN [data EXCEPT !.hemoglobin = IF numValue = NaN THEN decrypted ELSE numValue]

-----------------------------------------------------------------------------
(* utils/jwt.js                                                            *)

JWT_EXPIRES_IN == 604800
JWT_REFRESH_EXPIRES_IN == 2592000

\* A presented token: who it names, when it expires, and whether its
\* signature, issuer and audience check out.
Token(userId, exp, sig) == [userId |-> userId, exp |-> exp, sig |-> sig]
Tokens ==
    {Token(u, JWT_EXPIRES_IN, "valid") : u \in Users} \cup
    {Token("u1", TickS, "valid"), Token("u1", JWT_REFRESH_EXPIRES_IN, "valid"),
     Token("u1", TickS, "forged"), Token("u2", JWT_EXPIRES_IN, "forged")}

\* generateRefreshToken signing for an audience verifyToken does not accept.
generateRefreshToken_otherAudience(payload, t) ==
    Token(payload.userId, t + JWT_REFRESH_EXPIRES_IN, "forged")

\* jwt.sign at time t: the payload, the expiry, and the secret, issuer and
\* audience that verifyToken checks.  Nothing in a token tells which of the
\* two functions signed it.
generateAccessToken(payload, t) == Token(payload.userId, t + JWT_EXPIRES_IN, "valid")

generateRefreshToken(payload, t) ==
    Token(payload.userId, t + JWT_REFRESH_EXPIRES_IN, "valid")

createTokenResponse(userId, t) ==
    [accessToken |-> generateAccessToken([userId |-> userId], t),
     refreshToken |-> generateRefreshToken([userId |-> userId], t)]

\* jsonwebtoken's verify: the signature is checked first, then the expiry.
jwtVerify(token, t) ==
    IF token.sig # "valid"
    THEN [ok |-> FALSE, name |-> "JsonWebTokenError"]
    ELSE IF t >= token.exp
    THEN [ok |-> FALSE, name |-> "TokenExpiredError"]
    ELSE [ok |-> TRUE, decoded |-> [userId |-> token.userId, exp |-> token.exp]]

\* verifyToken catches whatever jwt.verify throws and throws
\* new Error('Invalid or expired token'), whose name is "Error".
verifyToken(token, t) ==
    LET r == jwtVerify(token, t)
    IN IF r.ok THEN r ELSE [ok |-> FALSE, name |-> "Error"]

-----------------------------------------------------------------------------
(* middleware/auth.js                                                      *)

Err(status, code) == [status |-> status, code |-> code]

\* authenticate: the outcome is either next() with req.user set, or a 401.
authenticate(token, t, store) ==
    IF token = NONE THEN [next |-> FALSE, res |-> Err(401, "MISSING_TOKEN")]
    ELSE LET v == verifyToken(token, t) IN
         IF ~v.ok THEN
            [next |-> FALSE,
             res |-> IF v.name = "TokenExpiredError" THEN Err(401, "TOKEN_EXPIRED")
                     ELSE IF v.name = "JsonWebTokenError" THEN Err(401, "INVALID_TOKEN")
                     ELSE Err(401, "AUTHENTICATION_FAILED")]
         ELSE IF store[v.decoded.userId] = NONE \/ ~store[v.decoded.userId].isActive
         THEN [next |-> FALSE, res |-> Err(401, "INVALID_USER")]
         ELSE [next |-> TRUE, userId |-> v.decoded.userId]

\* handleTokenRefresh
handleTokenRefresh(refreshToken, t, store) ==
    IF refreshToken = NONE THEN Err(400, "MISSING_REFRESH_TOKEN")
    ELSE LET v == verifyToken(refreshToken, t) IN
         IF ~v.ok THEN
            (IF v.name = "TokenExpiredError" THEN Err(401, "REFRESH_TOKEN_EXPIRED")
             ELSE Err(401, "INVALID_REFRESH_TOKEN"))
         ELSE IF store[v.decoded.userId] = NONE \/ ~store[v.decoded.userId].isActive
         THEN Err(401, "INVALID_USER")
         ELSE [status |-> 200, code |-> "OK", userId |-> v.decoded.userId,
               accessExp |-> t + JWT_EXPIRES_IN, refreshExp |-> t + JWT_REFRESH_EXPIRES_IN]

-----------------------------------------------------------------------------
(* services/aiService.js                                                   *)

maxRetries == 3

\* What the upstream does to one HTTP attempt.  An error carries the name
\* and code node-fetch gives it and the pattern-relevant substrings of its
\* message; an HTTP answer carries its status, the substrings of its body
\* text and, when it is 2xx JSON, the parsed and unwrapped payload.
Abort    == [kind |-> "error", name |-> "AbortError", code |-> "", message |-> {"aborted"}]
Refused  == [kind |-> "error", name |-> "FetchError", code |-> "ECONNREFUSED",
             message |-> {"ECONNREFUSED"}]
Reset    == [kind |-> "error", name |-> "FetchError", code |-> "ECONNRESET",
             message |-> {"ECONNRESET"}]
Status(n, text) == [kind |-> "http", status |-> n, text |-> text]
Json(payload) == [kind |-> "json", payload |-> payload]

\* A payload after the unwrapping of lines 194-205: prediction1 holds the
\* numeric outputs (here severity), prediction2 the free-text outputs, and
\* the narrative fields (insights, recommendations, riskFactors, confidence,
\* metadata.modelVersion) are present together or not at all.  confidence
\* is in hundredths.  NotAnObject is a payload that is no JSON object.
\* A model version is its leading name and the text appended after ':'.
NotAnObject == [object |-> FALSE]
Payload(p1, p2, nar) ==
    [object |-> TRUE, prediction1 |-> p1, prediction2 |-> p2, narrative |-> nar]
Outputs(sev) == [severity |-> sev]
Texts == [medicationText |-> "text"]
Narrative(conf, ver) == [confidence |-> conf, modelVersion |-> ver]
Version(name, suffix) == [name |-> name, suffix |-> suffix]

EmptyPayload   == Payload(NONE, NONE, NONE)
StructuredOnly == Payload(Outputs(2), NONE, NONE)
OutOfRange     == Payload(Outputs(150), NONE, NONE)
OutputsOnly    == Payload(Outputs(2), Texts, NONE)
FullPayload    == Payload(Outputs(2), Texts, Narrative(90, ""))

Payloads == {EmptyPayload, StructuredOnly, OutOfRange, OutputsOnly, FullPayload}

\* The upstream's behaviour over one call of makeAIRequest: what it does to
\* attempt 1, 2, ...; the last entry repeats.
UpstreamBehaviours ==
    {<<Json(p)>> : p \in Payloads} \cup
    { <<Abort>>, <<Refused>>, <<Reset>>,
      <<Status(500, {}), Json(StructuredOnly)>>, <<Json(NotAnObject)>> }

AttemptOutcome(up, attempt) == IF attempt <= Len(up) THEN up[attempt] ELSE up[Len(up)]

validateAIResponse(response) == response.object

isRetryableError(message) ==
    \/ "timeout" \in message \/ "network" \in message
    \/ "ECONNRESET" \in message \/ "ETIMEDOUT" \in message
    \/ "status 5xx" \in message

\* The error the try block of makeAIRequest ends with for one attempt, or
\* the payload it returns.
AttemptResult(o) ==
    IF o.kind = "error" THEN [ok |-> FALSE, name |-> o.name, code |-> o.code, message |-> o.message]
    ELSE IF o.kind = "http" THEN
        [ok |-> FALSE, name |-> "Error", code |-> "",
         message |-> (IF o.status >= 500 THEN {"status 5xx"} ELSE {"status 4xx"}) \cup o.text]
    ELSE IF ~validateAIResponse(o.payload) THEN
        [ok |-> FALSE, name |-> "Error", code |-> "", message |-> {"Invalid response format"}]
    ELSE [ok |-> TRUE, payload |-> o.payload]

retryDelay == 1000

catchBlock_flatDelay(error, attempt) ==
    IF error.name = "AbortError" THEN [retry |-> FALSE, message |-> {"timed out"}]
    ELSE IF error.code = "ECONNREFUSED" \/ error.code = "ENOTFOUND"
         THEN [retry |-> FALSE, message |-> {"unavailable"}]
    ELSE IF attempt < maxRetries /\ isRetryableError(error.message)
         THEN [retry |-> TRUE, message |-> error.message, delay |-> retryDelay]
    ELSE [retry |-> FALSE, message |-> error.message]

\* The catch block of makeAIRequest for the error of one attempt: the error
\* it throws, or the delay it sleeps before the next attempt.
catchBlock(error, attempt) ==
    IF error.name = "AbortError" THEN [retry |-> FALSE, message |-> {"timed out"}]
    ELSE IF error.code = "ECONNREFUSED" \/ error.code = "ENOTFOUND"
         THEN [retry |-> FALSE, message |-> {"unavailable"}]
    ELSE IF attempt < maxRetries /\ isRetryableError(error.message)
         THEN [retry |-> TRUE, message |-> error.message, delay |-> retryDelay * attempt]
    ELSE [retry |-> FALSE, message |-> error.message]

RECURSIVE makeAIRequest(_, _)
makeAIRequest(up, attempt) ==
    LET r == AttemptResult(AttemptOutcome(up, attempt)) IN
    IF r.ok THEN [ok |-> TRUE, payload |-> r.payload, attempts |-> attempt]
    ELSE IF catchBlock(r, attempt).retry THEN makeAIRequest(up, attempt + 1)
    ELSE [ok |-> FALSE, message |-> catchBlock(r, attempt).message, attempts |-> attempt]

extractModelOutputs(aiResponse) == aiResponse.prediction1

extractModelTextOutputs(aiResponse) == aiResponse.prediction2

getErrorCode(message) ==
    IF "timeout" \in message THEN "AI_SERVICE_TIMEOUT"
    ELSE IF "unavailable" \in message THEN "AI_SERVICE_UNAVAILABLE"
    ELSE IF "Invalid response format" \in message THEN "AI_RESPONSE_INVALID"
    ELSE IF "API key" \in message THEN "AI_SERVICE_UNAUTHORIZED"
    ELSE "AI_SERVICE_ERROR"

\* The narrative object of lines 275-288.
NarrativeResult(aiResponse, t) ==
    IF aiResponse.narrative = NONE THEN NONE
    ELSE [confidence |-> aiResponse.narrative.confidence,
          processedAt |-> t,
          modelVersion |-> IF aiResponse.narrative.modelVersion = ""
                           THEN Version("nutritionfastapi", {})
                           ELSE Version(aiResponse.narrative.modelVersion, {})]

Failure(message) ==
    [success |-> FALSE, error |-> [code |-> getErrorCode(message), message |-> message]]

\* The outputs a result carries, marked with what computed them (a history
\* field: the code stores the values alone).
By(source, outputs) == IF outputs = NONE THEN NONE ELSE [by |-> source] @@ outputs

\* middleware/cache.js holds a second copy of the service, with the local
\* rule-based estimate.  The deficiency flags and the severity it derives
\* from the labs and symptoms are one severity value here.
buildFallbackAnalysis(assessment, reason, t) ==
    [modelOutputs |-> By("fallback", Outputs(0)),
     modelTextOutputs |-> By("fallback", Texts),
     analysisResult |-> [confidence |-> 45, processedAt |-> t,
                         modelVersion |-> Version("fallback-rules", reason)]]

FallbackResult(assessment, reason, t) ==
    LET fallback == buildFallbackAnalysis(assessment, reason, t) IN
    [success |-> TRUE, data |-> fallback.analysisResult,
     modelOutputs |-> fallback.modelOutputs,
     modelTextOutputs |-> fallback.modelTextOutputs]

\* The copy of analyzeAssessment in middleware/cache.js (lines 463-535).
analyzeAssessmentWithFallback(assessment, up, t) ==
    LET r == makeAIRequest(up, 1) IN
    IF ~r.ok THEN FallbackResult(assessment, r.message, t)
    ELSE LET modelOutputs == extractModelOutputs(r.payload)
             modelTextOutputs == extractModelTextOutputs(r.payload)
             analysisResult == NarrativeResult(r.payload, t)
         IN IF analysisResult = NONE /\ modelOutputs = NONE /\ modelTextOutputs = NONE
            THEN FallbackResult(assessment, {"empty-response"}, t)
            ELSE [success |-> TRUE, data |-> analysisResult,
                  modelOutputs |-> By("model", modelOutputs),
                  modelTextOutputs |-> By("model", modelTextOutputs)]

\* analyzeAssessment degrading to the local estimate instead of reporting
\* the failure.
analyzeAssessment_degrades(assessment, up, t) ==
    analyzeAssessmentWithFallback(assessment, up, t)

\* analyzeAssessment of services/aiService.js around its call of
\* makeAIRequest, which returned or threw r.
analyzeResponse(r, t) ==
    IF ~r.ok THEN Failure(r.message)
    ELSE LET modelOutputs == extractModelOutputs(r.payload)
             modelTextOutputs == extractModelTextOutputs(r.payload)
             analysisResult == NarrativeResult(r.payload, t)
         IN IF analysisResult = NONE /\ modelOutputs = NONE /\ modelTextOutputs = NONE
            THEN Failure({"empty or unsupported response"})
            ELSE [success |-> TRUE, data |-> analysisResult,
                  modelOutputs |-> By("model", modelOutputs),
                  modelTextOutputs |-> By("model", modelTextOutputs)]

\* analyzeAssessment of services/aiService.js, the module the routes import.
analyzeAssessment(assessment, up, t) == analyzeResponse(makeAIRequest(up, 1), t)

\* An answer whose headers arrive with status 200 and whose body never ends.
Stall == [kind |-> "stall", status |-> 200]

\* One call of makeAIRequest in progress: the attempt it is at, where that
\* attempt stands ("fetch": awaiting fetch(), "body": awaiting
\* response.text() or response.json(), "sleep": awaiting sleep()), whether
\* the abort timer of the attempt is armed, and the delays slept so far.
Attempt(up, attempt, slept) ==
    [op |-> "analyzeAssessment", up |-> up, attempt |-> attempt, at |-> "fetch",
     timer |-> TRUE, slept |-> slept]

\* What analyzeAssessment returns when makeAIRequest has returned or thrown r.
Returned(call, r, t) ==
    [op |-> "analyzeAssessment", up |-> call.up, attempts |-> call.attempt,
     slept |-> call.slept, result |-> analyzeResponse(r, t)]

\* The end of one attempt with the result r of its try block: the call
\* returns, throws, or sleeps before the next attempt.  Both paths have
\* called clearTimeout by then.
settle(call, r, t) ==
    IF r.ok THEN [call |-> NONE, resp |-> Returned(call, r, t)]
    ELSE IF catchBlock(r, call.attempt).retry
    THEN [call |-> [call EXCEPT !.at = "sleep", !.timer = FALSE,
                                !.slept = Append(@, catchBlock(r, call.attempt).delay)],
          resp |-> [op |-> "none"]]
    ELSE [call |-> NONE,
          resp |-> Returned(call, [ok |-> FALSE,
                                   message |-> catchBlock(r, call.attempt).message], t)]

healthCheck_noCatch(o) ==
    IF o.kind = "error" THEN [thrown |-> TRUE, message |-> o.message]
    ELSE [thrown |-> FALSE,
          value |-> [available |-> o.status \in 200..299, status |-> o.status]]

\* healthCheck: fetch() of /health under a 5 second abort timer; the body of
\* the answer is not read.  Every error is caught.
healthCheck(o) ==
    IF o.kind = "error"
    THEN [thrown |-> FALSE, value |-> [available |-> FALSE, error |-> o.message]]
    ELSE [thrown |-> FALSE,
          value |-> [available |-> o.status \in 200..299, status |-> o.status]]

-----------------------------------------------------------------------------
(* middleware/cache.js                                                     *)

CACHE_TTL == 300
CacheCleanupSize == 1000

Url(id) == <<"/api/assessments", id>>

\* `${req.method}:${req.originalUrl}:${req.user?.id || 'anonymous'}`
CacheKey(method, originalUrl, reqUserId) ==
    <<method, originalUrl, IF reqUserId = "" THEN "anonymous" ELSE reqUserId>>

CacheGet(c, key) == IF key \in DOMAIN c THEN c[key] ELSE NONE

cleanupCache(c, t) ==
    LET kept == {k \in DOMAIN c : ~(t - c[k].timestamp > CACHE_TTL)}
    IN [k \in kept |-> c[k]]

\* The overridden res.json: a 200 body is stored under the key.
CachePut(c, key, data, statusCode, t) ==
    IF statusCode # 200 THEN c
    ELSE LET c1 == (key :> [data |-> data, timestamp |-> t]) @@ c
         IN IF Cardinality(DOMAIN c1) > CacheCleanupSize THEN cleanupCache(c1, t) ELSE c1

-----------------------------------------------------------------------------
(* app (unnamed/part_007)                                                  *)

\* app.use('/api/assessments', memoryCache(300000), assessmentRoutes)
AssessmentsCacheTtl == 300

\* req.user?.id as memoryCache reads it: the middleware is mounted in front
\* of the router, and authenticate, which sets req.user, runs inside the
\* router, so req.user is still undefined.
ReqUserIdAtCache(token) == ""

-----------------------------------------------------------------------------
(* models/Assessment (unnamed/part_001)                                    *)

\* The fields isComplete lists; the schema and the validators of POST /
\* require each of them.
RequiredFields ==
    {"fatigue", "hair_loss", "acidity", "dizziness", "muscle_pain", "numbness",
     "vegetarian", "iron_food_freq", "dairy_freq", "sunlight_min", "junk_food_freq",
     "smoking", "alcohol",
     "hemoglobin", "ferritin", "vitamin_b12", "vitamin_d", "calcium"}

\* The sets of fields a request body gives.
GivenFields == {RequiredFields, RequiredFields \ {"calcium"}}

\* new Assessment({...req.body, userId}); fields: the fields that are set.
\* An aiAnalysis of NONE is one none of whose fields is set.
NewAssessment(userId, given) ==
    [userId |-> userId, fields |-> given, status |-> "draft", completedAt |-> -1,
     aiAnalysis |-> NONE, modelOutputs |-> NONE, modelTextOutputs |-> NONE]

isComplete(doc) == RequiredFields \subseteq doc.fields

\* pre('save') stamping completedAt on every save that changes the status.
PreSave_restamps(doc, statusModified, t) ==
    IF statusModified THEN [doc EXCEPT !.completedAt = t] ELSE doc

\* pre('save'): completedAt is set when the status changes to completed.
PreSave(doc, statusModified, t) ==
    IF statusModified /\ doc.status = "completed" /\ doc.completedAt = -1
    THEN [doc EXCEPT !.completedAt = t]
    ELSE doc

\* The schema's validators on aiAnalysis.confidence ([0, 1], in hundredths
\* here) and modelOutputs.severity ([0, 100]).
Validates(doc) ==
    /\ doc.aiAnalysis # NONE =>
          (doc.aiAnalysis.confidence >= 0 /\ doc.aiAnalysis.confidence <= 100)
    /\ doc.modelOutputs # NONE =>
          (doc.modelOutputs.severity >= 0 /\ doc.modelOutputs.severity <= 100)

\* The schema's bounds on hemoglobin, in tenths of g/dL.  A path is
\* validated on save when it was modified since the document was loaded.
HemoglobinMin == 72
HemoglobinMax == 165

LabValidates(doc, stored) ==
    doc.hemoglobin # stored.hemoglobin =>
        /\ doc.hemoglobin.kind = "number"
        /\ 10 * doc.hemoglobin.value >= HemoglobinMin
        /\ 10 * doc.hemoglobin.value <= HemoglobinMax

\* The post find hook on a document (not on a lean() object): the lab
\* values are replaced by what decryptHealthData returns.
AssessmentPostFind(doc) ==
    IF doc = NONE THEN doc
    ELSE [doc EXCEPT !.hemoglobin = decryptHealthData([hemoglobin |-> @]).hemoglobin]

\* The encryption step of pre('save'): when a lab value was modified since
\* the document was loaded, the lab values are encrypted again.
encryptOnSave(doc, stored, iv) ==
    IF doc.hemoglobin # stored.hemoglobin
    THEN [doc EXCEPT !.hemoglobin = encryptHealthData([hemoglobin |-> @], iv).hemoglobin]
    ELSE doc

-----------------------------------------------------------------------------
(* routes/assessments.js                                                   *)

minInterval == 300

\* import aiService from '../services/aiService.js'
aiService(which, assessment, up, t) ==
    IF which = "cache.js copy"
    THEN analyzeAssessmentWithFallback(assessment, up, t)
    ELSE analyzeAssessment(assessment, up, t)

requireEmailVerification(userDoc) == userDoc.emailVerified

\* Lines 111-121 and 445-455: the in-memory document after the result of a
\* successful analysis is assigned to it.
ApplyAnalysis(doc, result) ==
    [doc EXCEPT
        !.aiAnalysis = IF result.data # NONE THEN result.data ELSE @,
        !.modelOutputs = IF result.modelOutputs # NONE THEN result.modelOutputs ELSE @,
        !.modelTextOutputs =
            IF result.modelTextOutputs # NONE THEN result.modelTextOutputs ELSE @,
        !.status = "analyzed"]

\* How one call of the upstream ends, as the claims speak of it: the call
\* fails after all attempts, or answers without any usable field, or
\* answers with something usable.
UpstreamClass(up) ==
    LET r == makeAIRequest(up, 1) IN
    IF ~r.ok THEN "failed"
    ELSE IF r.payload.prediction1 = NONE /\ r.payload.prediction2 = NONE
            /\ r.payload.narrative = NONE THEN "unusable"
    ELSE "usable"

\* The 201 body of POST /.
Created(id, doc, aiAnalysisResult) ==
    [status |-> 201, code |-> "CREATED",
     body |-> [id |-> id, userId |-> doc.userId, status |-> doc.status,
               completedAt |-> doc.completedAt, aiAnalysis |-> aiAnalysisResult,
               modelOutputs |-> doc.modelOutputs,
               modelTextOutputs |-> doc.modelTextOutputs]]

\* POST / with a failing second save left to the outer catch.
postAssessment_saveUncaught(which, userId, id, given, up, dbOk1, dbOk2, t) ==
    LET assessment == NewAssessment(userId, given)
        completed == IF isComplete(assessment)
                     THEN [assessment EXCEPT !.status = "completed"] ELSE assessment
        first == PreSave(completed, TRUE, t)
        result == aiService(which, first, up, t)
        analyzed == ApplyAnalysis(first, result)
    IN IF given # RequiredFields THEN
          [res |-> Err(400, "VALIDATION_ERROR"), stored |-> NONE,
           called |-> FALSE, result |-> NONE, analyzedOk |-> FALSE]
       ELSE IF ~dbOk1 THEN
          [res |-> Err(500, "ASSESSMENT_CREATION_FAILED"), stored |-> NONE,
           called |-> FALSE, result |-> NONE, analyzedOk |-> FALSE]
       ELSE IF result.success /\ ~(dbOk2 /\ Validates(analyzed)) THEN
          [res |-> Err(500, "ASSESSMENT_CREATION_FAILED"), stored |-> first,
           called |-> TRUE, result |-> result, analyzedOk |-> FALSE]
       ELSE IF result.success THEN
          [res |-> Created(id, analyzed, analyzed.aiAnalysis), stored |-> analyzed,
           called |-> TRUE, result |-> result, analyzedOk |-> TRUE]
       ELSE
          [res |-> Created(id, first, NONE), stored |-> first,
           called |-> TRUE, result |-> result, analyzedOk |-> FALSE]

\* POST / saving the new document with the status the schema gives it.
postAssessment_keepsDraft(which, userId, id, given, up, dbOk1, dbOk2, t) ==
    LET first == PreSave(NewAssessment(userId, given), TRUE, t)
    IN IF given # RequiredFields THEN
          [res |-> Err(400, "VALIDATION_ERROR"), stored |-> NONE,
           called |-> FALSE, result |-> NONE, analyzedOk |-> FALSE]
       ELSE IF ~dbOk1 THEN
          [res |-> Err(500, "ASSESSMENT_CREATION_FAILED"), stored |-> NONE,
           called |-> FALSE, result |-> NONE, analyzedOk |-> FALSE]
       ELSE
          [res |-> Created(id, first, NONE), stored |-> first,
           called |-> FALSE, result |-> NONE, analyzedOk |-> FALSE]

\* router.post('/') after authentication (lines 76-163): the response, the
\* document the collection holds afterwards, and what the AI step did.
\* The validators reject a body that lacks a required field.  dbOk1 and
\* dbOk2 say whether the database accepts the first and the second save.
postAssessment(which, userId, id, given, up, dbOk1, dbOk2, t) ==
    LET assessment == NewAssessment(userId, given)
        completed == IF isComplete(assessment)
                     THEN [assessment EXCEPT !.status = "completed"] ELSE assessment
        first == PreSave(completed, TRUE, t)
    IN IF given # RequiredFields THEN
          [res |-> Err(400, "VALIDATION_ERROR"), stored |-> NONE,
           called |-> FALSE, result |-> NONE, analyzedOk |-> FALSE]
       ELSE IF ~dbOk1 THEN
          [res |-> Err(500, "ASSESSMENT_CREATION_FAILED"), stored |-> NONE,
           called |-> FALSE, result |-> NONE, analyzedOk |-> FALSE]
       ELSE IF first.status # "completed" THEN
          [res |-> Created(id, first, NONE), stored |-> first,
           called |-> FALSE, result |-> NONE, analyzedOk |-> FALSE]
       ELSE LET result == aiService(which, first, up, t) IN
          IF result.success THEN
             LET analyzed == ApplyAnalysis(first, result)
                 saved == dbOk2 /\ Validates(analyzed)
             IN [res |-> Created(id, analyzed, IF saved THEN analyzed.aiAnalysis ELSE NONE),
                 stored |-> IF saved THEN PreSave(analyzed, TRUE, t) ELSE first,
                 called |-> TRUE, result |-> result, analyzedOk |-> saved]
          ELSE [res |-> Created(id, first, NONE), stored |-> first,
                called |-> TRUE, result |-> result, analyzedOk |-> FALSE]

\* router.get('/:id') after authentication (lines 218-273).
getAssessment(userId, id, coll) ==
    IF coll[id] = NONE THEN Err(404, "ASSESSMENT_NOT_FOUND")
    ELSE IF coll[id].userId # userId THEN Err(403, "ACCESS_DENIED")
    ELSE [status |-> 200, code |-> "OK",
          data |-> [assessment |-> [id |-> id] @@ coll[id]]]

\* router.delete('/:id') after authentication (lines 282-337).
deleteAssessment(userId, id, coll) ==
    IF coll[id] = NONE THEN [res |-> Err(404, "ASSESSMENT_NOT_FOUND"), stored |-> coll[id]]
    ELSE IF coll[id].userId # userId
    THEN [res |-> Err(403, "ACCESS_DENIED"), stored |-> coll[id]]
    ELSE [res |-> [status |-> 200, code |-> "OK"], stored |-> NONE]

\* router.post('/:id/analyze') after authentication (lines 376-494).
analyzeRoute(which, userId, id, up, dbOk, t, coll) ==
    LET assessment == coll[id]
        quiet == [stored |-> assessment, called |-> FALSE, result |-> NONE,
                  analyzedOk |-> FALSE]
    IN IF assessment = NONE THEN [res |-> Err(404, "ASSESSMENT_NOT_FOUND")] @@ quiet
       ELSE IF assessment.userId # userId THEN [res |-> Err(403, "ACCESS_DENIED")] @@ quiet
       ELSE IF ~isComplete(assessment) THEN [res |-> Err(400, "ASSESSMENT_INCOMPLETE")] @@ quiet
       ELSE IF assessment.aiAnalysis # NONE
               /\ t - assessment.aiAnalysis.processedAt < minInterval
       THEN [res |-> Err(429, "ANALYSIS_TOO_FREQUENT")] @@ quiet
       ELSE LET result == aiService(which, assessment, up, t) IN
          IF ~result.success THEN
             [res |-> Err(503, result.error.code), stored |-> assessment,
              called |-> TRUE, result |-> result, analyzedOk |-> FALSE]
          ELSE LET analyzed == ApplyAnalysis(assessment, result)
                   saved == dbOk /\ Validates(analyzed)
               IN IF ~saved THEN
                     [res |-> Err(500, "AI_ANALYSIS_FAILED"), stored |-> assessment,
                      called |-> TRUE, result |-> result, analyzedOk |-> FALSE]
                  ELSE
                     [res |-> [status |-> 200, code |-> "OK",
                               body |-> [id |-> id, aiAnalysis |-> analyzed.aiAnalysis,
                                         modelOutputs |-> analyzed.modelOutputs,
                                         modelTextOutputs |-> analyzed.modelTextOutputs,
                                         status |-> analyzed.status]],
                      stored |-> PreSave(analyzed, TRUE, t),
                      called |-> TRUE, result |-> result, analyzedOk |-> TRUE]

-----------------------------------------------------------------------------
(* models/User.js                                                          *)

\* The random IVs the two encryptData calls of one save draw, in order.
IvDraws == {<<"iv1", "iv2">>, <<"iv2", "iv1">>}

\* generateSecureToken() returns 32 random bytes: the n-th token it returns
\* is the number n, different from every token returned before.  A token
\* field that is undefined is 0, a date that is undefined is -1.
SecureTokens == 1..MaxTokens

\* What is remembered of a token returned at time t: the field it was
\* stored in, the user, its expiry and whether a request has used it.
Issue(kind, user, expires) ==
    [kind |-> kind, user |-> user, expires |-> expires, used |-> FALSE]

EmailVerificationTtl == 86400

PasswordResetTtl == 3600

\* new User({email, password, firstName, lastName, emailVerificationToken,
\* emailVerificationExpires}) at time t.  The password hash is not followed.
NewUser(email, firstName, lastName, token, t) ==
    [email |-> email, isActive |-> TRUE, emailVerified |-> FALSE,
     emailVerificationToken |-> token,
     emailVerificationExpires |-> t + EmailVerificationTtl,
     passwordResetToken |-> 0, passwordResetExpires |-> -1,
     firstName |-> firstName, lastName |-> lastName, lastLogin |-> -1]

MaxNameLength == 50

\* The length of a string; an envelope has 24 + 32 hex digits, two colons
\* and at least one byte of ciphertext.
Length(value) == IF value.kind = "plain" THEN Len(value.text) ELSE 60

\* The validators of firstName and lastName, without the exemption of
\* envelopes.
UserValidates_plaintextOnly(doc) ==
    /\ Length(doc.firstName) <= MaxNameLength
    /\ Length(doc.lastName) <= MaxNameLength

\* The validators of firstName and lastName, run by save() before
\* pre('save'): an envelope passes, a plaintext of at most 50 characters
\* passes.
UserValidates(doc) ==
    /\ isEncryptedValue(doc.firstName) \/ Length(doc.firstName) <= MaxNameLength
    /\ isEncryptedValue(doc.lastName) \/ Length(doc.lastName) <= MaxNameLength

\* post(['find', 'findOne', 'findOneAndUpdate']): the names of the loaded
\* document are replaced in memory by what decryptData returns.
UserPostFind(doc) ==
    IF doc = NONE THEN doc
    ELSE [doc EXCEPT !.firstName = decryptData(@), !.lastName = decryptData(@)]

\* isModified(path) of the in-memory document against the stored one: a
\* new document, or a path that was assigned a different value.
isModified(doc, stored, path) == stored = NONE \/ doc[path] # stored[path]

\* pre('save')
UserPreSave(doc, stored, draws) ==
    [doc EXCEPT
        !.firstName = IF isModified(doc, stored, "firstName")
                      THEN encryptData(@, draws[1]) ELSE @,
        !.lastName = IF isModified(doc, stored, "lastName")
                     THEN encryptData(@, draws[2]) ELSE @]

-----------------------------------------------------------------------------
(* routes/auth.js and the users routes (unnamed/part_005)                  *)
(* Each handler gives its response and the document the collection holds   *)
(* for the user afterwards.  The database accepts the writes: the catch    *)
(* blocks, which answer 500 and write nothing, are not followed.           *)

Ok(status) == [status |-> status, code |-> "OK"]

\* data.user of the responses of register and login, read from the
\* document in memory after save() has run pre('save') on it.
UserSummary(user) == [firstName |-> user.firstName, lastName |-> user.lastName]

\* POST /api/auth/register with valid fields, at time t; token is what
\* generateSecureToken() returns.
register(email, firstName, lastName, token, draws, t, store) ==
    LET user == UserPreSave(NewUser(email, firstName, lastName, token, t), NONE, draws) IN
    IF UserPostFind(store[email]) # NONE
    THEN [res |-> Err(409, "USER_EXISTS"), stored |-> store[email]]
    ELSE [res |-> Ok(201) @@ [body |-> UserSummary(user)], stored |-> user]

\* POST /api/auth/login at time t
login(email, passwordOk, draws, t, store) ==
    LET found == UserPostFind(store[email])
        user == UserPreSave([found EXCEPT !.lastLogin = t], store[email], draws)
    IN IF found = NONE \/ ~found.isActive \/ ~passwordOk
       THEN [res |-> Err(401, "INVALID_CREDENTIALS"), stored |-> store[email]]
       ELSE IF ~UserValidates(found)
       THEN [res |-> Err(500, "LOGIN_FAILED"), stored |-> store[email]]
       ELSE [res |-> Ok(200) @@ [body |-> UserSummary(user)], stored |-> user]

verifyEmail_keepsToken(token, draws, t, store) ==
    LET match == {u \in DOMAIN store :
                     /\ store[u] # NONE
                     /\ store[u].emailVerificationToken = token
                     /\ store[u].emailVerificationExpires > t}
        userId == CHOOSE u \in match : TRUE
        user == UserPostFind(store[userId])
    IN IF match = {} THEN [res |-> Err(400, "INVALID_TOKEN"), userId |-> "", stored |-> NONE]
       ELSE [res |-> Ok(200), userId |-> userId,
             stored |-> UserPreSave([user EXCEPT !.emailVerified = TRUE],
                                    store[userId], draws)]

\* POST /api/auth/verify-email at time t: the user is looked up by the token
\* presented, among the users whose token has not expired.
verifyEmail(token, draws, t, store) ==
    LET match == {u \in DOMAIN store :
                     /\ store[u] # NONE
                     /\ store[u].emailVerificationToken = token
                     /\ store[u].emailVerificationExpires > t}
        userId == CHOOSE u \in match : TRUE
        user == UserPostFind(store[userId])
    IN IF match = {} THEN [res |-> Err(400, "INVALID_TOKEN"), userId |-> "", stored |-> NONE]
       ELSE [res |-> Ok(200), userId |-> userId,
             stored |-> UserPreSave([user EXCEPT !.emailVerified = TRUE,
                                                 !.emailVerificationToken = 0,
                                                 !.emailVerificationExpires = -1],
                                    store[userId], draws)]

\* POST /api/auth/forgot-password at time t; token is what
\* generateSecureToken() returns.
forgotPassword(email, token, draws, t, store) ==
    LET user == UserPostFind(store[email]) IN
    IF user = NONE \/ ~user.isActive
    THEN [res |-> Ok(200), sent |-> FALSE, stored |-> store[email]]
    ELSE [res |-> Ok(200), sent |-> TRUE,
          stored |-> UserPreSave([user EXCEPT !.passwordResetToken = token,
                                              !.passwordResetExpires = t + PasswordResetTtl],
                                 store[email], draws)]

\* POST /api/auth/reset-password at time t
resetPassword(token, draws, t, store) ==
    LET match == {u \in DOMAIN store :
                     /\ store[u] # NONE
                     /\ store[u].passwordResetToken = token
                     /\ store[u].passwordResetExpires > t}
        userId == CHOOSE u \in match : TRUE
        user == UserPostFind(store[userId])
    IN IF match = {} THEN [res |-> Err(400, "INVALID_TOKEN"), userId |-> "", stored |-> NONE]
       ELSE [res |-> Ok(200), userId |-> userId,
             stored |-> UserPreSave([user EXCEPT !.passwordResetToken = 0,
                                                 !.passwordResetExpires = -1],
                                    store[userId], draws)]

\* POST /api/users/change-password after authentication; password says
\* how the passwords presented compare with the stored hash.
changePassword(userId, password, draws, store) ==
    LET user == UserPostFind(store[userId]) IN
    IF password = "wrong current"
    THEN [res |-> Err(401, "INVALID_CURRENT_PASSWORD"), stored |-> store[userId]]
    ELSE IF password = "same as current"
    THEN [res |-> Err(400, "SAME_PASSWORD"), stored |-> store[userId]]
    ELSE [res |-> Ok(200), stored |-> UserPreSave(user, store[userId], draws)]

\* PUT /api/users/profile after authentication and validation, without a
\* change of email; a name that the body does not give is NONE.  The update
\* goes through User.findByIdAndUpdate, which writes updateData as it is.
putProfile(userId, firstName, lastName, store) ==
    LET updated == [store[userId] EXCEPT
                       !.firstName = IF firstName # NONE THEN firstName ELSE @,
                       !.lastName = IF lastName # NONE THEN lastName ELSE @]
    IN [res |-> Ok(200) @@ [body |-> UserPostFind(updated)], stored |-> updated]

\* GET /api/users/profile after authentication: the names of req.user, which
\* authenticate loaded with User.findById.
getProfile(userId, store) ==
    Ok(200) @@ [body |-> UserSummary(UserPostFind(store[userId]))]

\* GET /api/users/export after authentication: User.findById(...).lean()
\* gives the stored object, which has no toObject and which the post-find
\* hook therefore leaves as it is.
getExport(userId, store) ==
    Ok(200) @@ [body |-> UserSummary(store[userId])]

\* POST /api/auth/register up to `await user.save()`: the lookup by email,
\* and the document built when no user is found.
registerFind(email, firstName, lastName, token, t, store) ==
    IF UserPostFind(store[email]) # NONE
    THEN [res |-> Err(409, "USER_EXISTS"), user |-> NONE]
    ELSE [res |-> NONE, user |-> NewUser(email, firstName, lastName, token, t)]

\* `await user.save()` of register and what follows it.  The unique index on
\* email rejects the insert when a user with the email is stored by then;
\* the catch block answers for the error.
registerSave(user, draws, store) ==
    IF store[user.email] # NONE
    THEN [res |-> Err(500, "REGISTRATION_FAILED"), stored |-> store[user.email]]
    ELSE [res |-> Ok(201), stored |-> UserPreSave(user, NONE, draws)]

\* DELETE /api/users/account after authentication, up to the deletion of the
\* user: the password check and Assessment.deleteMany({userId}).
deleteAccountAssessments(userId, passwordOk, coll) ==
    IF ~passwordOk THEN [res |-> Err(401, "INVALID_PASSWORD"), coll |-> coll]
    ELSE [res |-> NONE,
          coll |-> [i \in DOMAIN coll |->
                       IF coll[i] # NONE /\ coll[i].userId = userId THEN NONE ELSE coll[i]]]

\* User.findByIdAndDelete(req.user._id) of DELETE /account and the response.
deleteAccountUser(userId, store) ==
    [res |-> Ok(200), store |-> [store EXCEPT ![userId] = NONE]]

\* GET /api/ai/health (routes/ai.js)
aiHealth(o) ==
    IF healthCheck(o).thrown
    THEN Ok(200) @@ [success |-> TRUE, body |-> [healthy |-> FALSE]]
    ELSE Ok(200) @@ [success |-> TRUE, body |-> healthCheck(o).value]

-----------------------------------------------------------------------------
(* middleware/security.js: sensitiveEndpointLimiter                        *)

\* The options sensitiveSecurityMiddleware passes; windowMs in seconds.
windowMs == 900
max == 5

\* "Clean old entries": every entry whose window is over is deleted.
cleanOld(map, t) ==
    [ip \in DOMAIN map |->
        IF map[ip] # NONE /\ t - map[ip].firstAttempt > windowMs THEN NONE ELSE map[ip]]

\* The middleware on one request of `key` at time t: whether it calls
\* next(), and the Map it leaves.
sensitiveEndpointLimiter(key, t, map) ==
    LET cleaned == cleanOld(map, t)
        userAttempts == cleaned[key]
        fresh == [count |-> 1, firstAttempt |-> t]
    IN IF userAttempts = NONE
       THEN [next |-> TRUE, res |-> Ok(200), attempts |-> [cleaned EXCEPT ![key] = fresh]]
       ELSE IF t - userAttempts.firstAttempt > windowMs
       THEN [next |-> TRUE, res |-> Ok(200), attempts |-> [cleaned EXCEPT ![key] = fresh]]
       ELSE IF userAttempts.count >= max
       THEN [next |-> FALSE, res |-> Err(429, "RATE_LIMIT_EXCEEDED"), attempts |-> cleaned]
       ELSE [next |-> TRUE, res |-> Ok(200),
             attempts |-> [cleaned EXCEPT ![key].count = @ + 1]]

-----------------------------------------------------------------------------
(* models/Consent.js and routes/consent.js                                 *)

\* The consent types of the schema, in the order the routes insert them
\* into `preferences` (Object.keys order).
ConsentKeys == <<"analytics", "communications", "research">>

\* Bodies of PUT /api/consent that pass the validators: each preference
\* either absent or a boolean.  One, two or no preference is sent.
Preferences ==
    UNION {[keys -> BOOLEAN] : keys \in {{}, {"analytics"}, {"communications", "research"}}}

HistoryCap == 50

\* One element of consentHistory.  Of an entry the model keeps its identity
\* only: the request that recorded it and its rank among the entries that
\* request had loaded.
HistoryEntry(consent, by) ==
    LET ranks == {consent.consentHistory[i].seq : i \in DOMAIN consent.consentHistory}
    IN [seq |-> IF ranks = {} THEN 1 ELSE 1 + CHOOSE m \in ranks : \A n \in ranks : n <= m,
        by |-> by]

\* recordConsentChange keeping the first 50 entries instead of the last 50.
recordConsentChange_keepsOldest(consent, entry) ==
    LET pushed == Append(consent.consentHistory, entry) IN
    IF Len(pushed) > HistoryCap
    THEN [consent EXCEPT !.consentHistory = SubSeq(pushed, 1, HistoryCap),
                         !.reassigned = TRUE]
    ELSE [consent EXCEPT !.consentHistory = pushed,
                         !.pushed = Append(@, entry)]

\* consentSchema.methods.recordConsentChange on a loaded document.  `pushed`
\* are the elements push() registered for the next save; `reassigned` tells
\* that the path was assigned a new array (the slice).
recordConsentChange(consent, entry) ==
    LET pushed == Append(consent.consentHistory, entry) IN
    IF Len(pushed) > HistoryCap
    THEN [consent EXCEPT !.consentHistory =
                             SubSeq(pushed, Len(pushed) - HistoryCap + 1, Len(pushed)),
                         !.reassigned = TRUE]
    ELSE [consent EXCEPT !.consentHistory = pushed,
                         !.pushed = Append(@, entry)]

\* findOrCreateForUser: the stored document, or a new one with the defaults.
findOrCreateForUser(userId, store) ==
    IF store[userId] # NONE
    THEN store[userId]
    ELSE [analytics |-> TRUE, communications |-> FALSE, research |-> FALSE,
          consentHistory |-> << >>, version |-> 0]

\* A document as the handler holds it in memory after the find.
Loaded(stored) ==
    [analytics |-> stored.analytics, communications |-> stored.communications,
     research |-> stored.research, consentHistory |-> stored.consentHistory,
     version |-> stored.version, pushed |-> << >>, reassigned |-> FALSE]

\* The forEach of updateConsent over the keys of `preferences`.
RECURSIVE recordChanges(_, _, _, _)
recordChanges(consent, preferences, keys, by) ==
    IF keys = << >>
    THEN consent
    ELSE LET key == Head(keys)
             changed == key \in DOMAIN preferences /\ consent[key] # preferences[key]
         IN recordChanges(IF changed
                          THEN recordConsentChange(consent, HistoryEntry(consent, by))
                          ELSE consent,
                          preferences, Tail(keys), by)

\* The value updateConsent leaves in a preference of the loaded document.
Assigned(consent, preferences, key) ==
    IF key \in DOMAIN preferences THEN preferences[key] ELSE consent[key]

\* updateConsent after its find: the history entries, the assignments and
\* consent.save().  The save sends the modified paths only: a preference
\* that changed, the pushed elements as a $push, a reassigned array as a
\* $set of the whole array.  A $set of an array is sent with the version
\* the document was loaded at and fails when the stored version differs.
updateConsent(consent, preferences, by, stored) ==
    LET recorded == recordChanges(consent, preferences, ConsentKeys, by)
        value(key) == IF Assigned(consent, preferences, key) # consent[key]
                      THEN Assigned(consent, preferences, key)
                      ELSE stored[key]
    IN IF recorded.reassigned /\ stored.version # consent.version
       THEN [thrown |-> TRUE, stored |-> stored]
       ELSE [thrown |-> FALSE,
             stored |-> [analytics |-> value("analytics"),
                         communications |-> value("communications"),
                         research |-> value("research"),
                         consentHistory |->
                             IF recorded.reassigned
                             THEN recorded.consentHistory
                             ELSE stored.consentHistory \o recorded.pushed,
                         version |->
                             IF recorded.reassigned \/ recorded.pushed # << >>
                             THEN stored.version + 1
                             ELSE stored.version]]

-----------------------------------------------------------------------------
(* The state machine                                                       *)

RequestTokens == Tokens \cup {NONE}

\* A registered, active user with a verified email, names stored encrypted.
RegisteredUser(u) ==
    [email |-> u, isActive |-> TRUE, emailVerified |-> TRUE,
     emailVerificationToken |-> 0, emailVerificationExpires |-> -1,
     passwordResetToken |-> 0, passwordResetExpires |-> -1,
     firstName |-> Envelope(ENCRYPTION_KEY, "iv1", Plain(<<"A", "d", "a">>)),
     lastName |-> Envelope(ENCRYPTION_KEY, "iv2", Plain(<<"B", "o", "b">>)),
     lastLogin |-> -1]

NoResponse == [op |-> "none"]

\* The client addresses (req.ip), and the limiter's Map with no entry.
IPs == {"ip1", "ip2"}
NoAttempts == [ip \in IPs |-> NONE]

\* The requests that may be in progress at once, none of them started.
Requests == {"r1", "r2"}
NoRequests == [r \in Requests |-> NONE]

InitWith(which) ==
    /\ now = 0
    /\ users = [u \in Users |-> RegisteredUser(u)]
    /\ assessments = [i \in Ids |-> NONE]
    /\ cache = << >>
    /\ resp = NoResponse
    /\ analyzedAt = [i \in Ids |-> -1]
    /\ service = which
    /\ issued = << >>
    /\ inflight = NoRequests
    /\ consents = [u \in Users |-> NONE]
    /\ attempts = NoAttempts
    /\ passed = [ip \in IPs |-> << >>]

Init == InitWith("services/aiService.js")

InitFallback == InitWith("cache.js copy")

\* The user a presented token authenticates, "" when it authenticates none.
Client(token) ==
    LET auth == authenticate(token, now, users)
    IN IF auth.next THEN auth.userId ELSE ""

Tick ==
    /\ now < MaxTicks * TickS
    /\ now' = now + TickS
    /\ resp' = NoResponse
    /\ UNCHANGED <<users, assessments, cache, analyzedAt, service, issued, inflight, consents, attempts, passed>>

\* POST /api/assessments with valid fields.
PostAssessment ==
    \E token \in RequestTokens, id \in Ids, given \in GivenFields,
       up \in UpstreamBehaviours, dbOk1 \in BOOLEAN, dbOk2 \in BOOLEAN :
        LET auth == authenticate(token, now, users) IN
        /\ assessments[id] = NONE
        /\ IF ~auth.next THEN
              /\ resp' = [op |-> "POST /", id |-> id, client |-> "", firstSaved |-> FALSE,
                          called |-> FALSE] @@ auth.res
              /\ UNCHANGED <<assessments, analyzedAt>>
           ELSE IF ~requireEmailVerification(users[auth.userId]) THEN
              /\ resp' = [op |-> "POST /", id |-> id, client |-> auth.userId,
                          firstSaved |-> FALSE, called |-> FALSE]
                         @@ Err(403, "EMAIL_NOT_VERIFIED")
              /\ UNCHANGED <<assessments, analyzedAt>>
           ELSE
              LET r == postAssessment(service, auth.userId, id, given, up, dbOk1, dbOk2, now) IN
              /\ assessments' = [assessments EXCEPT ![id] = r.stored]
              /\ analyzedAt' = [analyzedAt EXCEPT ![id] = IF r.analyzedOk THEN now ELSE -1]
              /\ resp' = [op |-> "POST /", id |-> id, client |-> auth.userId,
                          firstSaved |-> (dbOk1 /\ given = RequiredFields),
                          called |-> r.called,
                          upstream |-> UpstreamClass(up), result |-> r.result] @@ r.res
        /\ UNCHANGED <<now, users, cache, service, issued, inflight, consents, attempts, passed>>

\* GET /api/assessments/:id, through memoryCache.
GetAssessment ==
    \E token \in RequestTokens, id \in Ids :
        LET key == CacheKey("GET", Url(id), ReqUserIdAtCache(token))
            cached == CacheGet(cache, key)
            auth == authenticate(token, now, users)
            about == [op |-> "GET /:id", id |-> id, client |-> Client(token)]
        IN
        /\ IF cached # NONE /\ now - cached.timestamp < AssessmentsCacheTtl THEN
              /\ resp' = about @@ [status |-> 200, code |-> "OK", data |-> cached.data,
                                   fromCache |-> TRUE]
              /\ UNCHANGED cache
           ELSE IF ~auth.next THEN
              /\ resp' = about @@ auth.res @@ [fromCache |-> FALSE]
              /\ UNCHANGED cache
           ELSE
              LET r == getAssessment(auth.userId, id, assessments) IN
              /\ resp' = about @@ r @@ [fromCache |-> FALSE]
              /\ cache' = IF r.status = 200
                          THEN CachePut(cache, key, r.data, r.status, now)
                          ELSE cache
        /\ UNCHANGED <<now, users, assessments, analyzedAt, service, issued, inflight, consents, attempts, passed>>

\* DELETE /api/assessments/:id
DeleteAssessment ==
    \E token \in RequestTokens, id \in Ids :
        LET auth == authenticate(token, now, users) IN
        /\ auth.next
        /\ LET r == deleteAssessment(auth.userId, id, assessments) IN
           /\ assessments' = [assessments EXCEPT ![id] = r.stored]
           /\ analyzedAt' = [analyzedAt EXCEPT ![id] = IF r.stored = NONE THEN -1 ELSE @]
           /\ resp' = [op |-> "DELETE /:id", id |-> id, client |-> auth.userId] @@ r.res
        /\ UNCHANGED <<now, users, cache, service, issued, inflight, consents, attempts, passed>>

\* POST /api/assessments/:id/analyze
PostAnalyze ==
    \E token \in RequestTokens, id \in Ids, up \in UpstreamBehaviours, dbOk \in BOOLEAN :
        LET auth == authenticate(token, now, users) IN
        /\ IF ~auth.next THEN
              /\ resp' = [op |-> "POST /:id/analyze", id |-> id, client |-> "",
                          called |-> FALSE] @@ auth.res
              /\ UNCHANGED <<assessments, analyzedAt>>
           ELSE
              LET r == analyzeRoute(service, auth.userId, id, up, dbOk, now, assessments) IN
              /\ assessments' = [assessments EXCEPT ![id] = r.stored]
              /\ analyzedAt' = [analyzedAt EXCEPT ![id] = IF r.analyzedOk THEN now ELSE @]
              /\ resp' = [op |-> "POST /:id/analyze", id |-> id, client |-> auth.userId,
                          sinceAnalysis |->
                              IF analyzedAt[id] = -1 THEN -1 ELSE now - analyzedAt[id],
                          called |-> r.called, upstream |-> UpstreamClass(up),
                          result |-> r.result] @@ r.res
        /\ UNCHANGED <<now, users, cache, service, issued, inflight, consents, attempts, passed>>

\* The requests on accounts start from an empty User collection.
InitAccount ==
    /\ now = 0
    /\ users = [u \in Users |-> NONE]
    /\ assessments = [i \in Ids |-> NONE]
    /\ cache = << >>
    /\ resp = NoResponse
    /\ analyzedAt = [i \in Ids |-> -1]
    /\ service = "services/aiService.js"
    /\ issued = << >>
    /\ inflight = NoRequests
    /\ consents = [u \in Users |-> NONE]
    /\ attempts = NoAttempts
    /\ passed = [ip \in IPs |-> << >>]

FirstNames == {Plain(<<"A", "d", "a">>)}
LastNames == {Plain(<<"B", "o", "b">>)}
Passwords == {"wrong current", "same as current", "new"}

\* The requests on accounts name one email: accounts do not refer to each
\* other.
Accounts == {"u1"}

Register ==
    \E u \in Accounts, firstName \in FirstNames, lastName \in LastNames,
       draws \in IvDraws :
        LET r == register(u, firstName, lastName, Len(issued) + 1, draws, now, users) IN
        /\ Len(issued) < MaxTokens
        /\ users' = [users EXCEPT ![u] = r.stored]
        /\ issued' = IF r.res.status = 201
                      THEN Append(issued, Issue("emailVerificationToken", u,
                                                now + EmailVerificationTtl))
                      ELSE issued
        /\ resp' = [op |-> "POST /register", user |-> u] @@ r.res
        /\ UNCHANGED <<now, assessments, cache, analyzedAt, service, inflight, consents, attempts, passed>>

Login ==
    \E u \in Accounts, passwordOk \in BOOLEAN, draws \in IvDraws :
        LET r == login(u, passwordOk, draws, now, users) IN
        /\ users' = [users EXCEPT ![u] = r.stored]
        /\ resp' = [op |-> "POST /login", user |-> u] @@ r.res
        /\ UNCHANGED <<now, assessments, cache, analyzedAt, service, issued, inflight, consents, attempts, passed>>

VerifyEmail ==
    \E token \in SecureTokens, draws \in IvDraws :
        LET r == verifyEmail(token, draws, now, users) IN
        /\ users' = IF r.userId = "" THEN users ELSE [users EXCEPT ![r.userId] = r.stored]
        /\ issued' = IF r.userId = "" THEN issued ELSE [issued EXCEPT ![token].used = TRUE]
        /\ resp' = [op |-> "POST /verify-email", token |-> token, user |-> r.userId]
                   @@ r.res
        /\ UNCHANGED <<now, assessments, cache, analyzedAt, service, inflight, consents, attempts, passed>>

ForgotPassword ==
    \E u \in Accounts, draws \in IvDraws :
        LET r == forgotPassword(u, Len(issued) + 1, draws, now, users) IN
        /\ Len(issued) < MaxTokens
        /\ users' = [users EXCEPT ![u] = r.stored]
        /\ issued' = IF r.sent
                      THEN Append(issued, Issue("passwordResetToken", u,
                                                now + PasswordResetTtl))
                      ELSE issued
        /\ resp' = [op |-> "POST /forgot-password", user |-> u] @@ r.res
        /\ UNCHANGED <<now, assessments, cache, analyzedAt, service, inflight, consents, attempts, passed>>

ResetPassword ==
    \E token \in SecureTokens, draws \in IvDraws :
        LET r == resetPassword(token, draws, now, users) IN
        /\ users' = IF r.userId = "" THEN users ELSE [users EXCEPT ![r.userId] = r.stored]
        /\ issued' = IF r.userId = "" THEN issued ELSE [issued EXCEPT ![token].used = TRUE]
        /\ resp' = [op |-> "POST /reset-password", token |-> token, user |-> r.userId]
                   @@ r.res
        /\ UNCHANGED <<now, assessments, cache, analyzedAt, service, inflight, consents, attempts, passed>>

\* The instants at which a token issued at an earlier instant has just
\* expired, and one instant between them.
Instants == {0, PasswordResetTtl, EmailVerificationTtl, EmailVerificationTtl + PasswordResetTtl}

\* Time passes to a later instant.
Wait ==
    /\ \E t \in Instants : t > now /\ now' = t
    /\ resp' = NoResponse
    /\ UNCHANGED <<users, assessments, cache, analyzedAt, service, issued, inflight, consents, attempts, passed>>

ChangePassword ==
    \E token \in RequestTokens, password \in Passwords, draws \in IvDraws :
        LET auth == authenticate(token, now, users) IN
        /\ auth.next
        /\ LET r == changePassword(auth.userId, password, draws, users) IN
           /\ users' = [users EXCEPT ![auth.userId] = r.stored]
           /\ resp' = [op |-> "POST /change-password", user |-> auth.userId] @@ r.res
           /\ UNCHANGED <<now, assessments, cache, analyzedAt, service, issued, inflight, consents, attempts, passed>>

PutProfile ==
    \E token \in RequestTokens, firstName \in FirstNames \cup {NONE},
       lastName \in LastNames \cup {NONE} :
        LET auth == authenticate(token, now, users) IN
        /\ auth.next
        /\ LET r == putProfile(auth.userId, firstName, lastName, users) IN
           /\ users' = [users EXCEPT ![auth.userId] = r.stored]
           /\ resp' = [op |-> "PUT /profile", user |-> auth.userId] @@ r.res
           /\ UNCHANGED <<now, assessments, cache, analyzedAt, service, issued, inflight, consents, attempts, passed>>

\* POST /api/auth/refresh
PostRefresh ==
    \E refreshToken \in RequestTokens :
        /\ resp' = [op |-> "POST /refresh", refreshToken |-> refreshToken]
                   @@ handleTokenRefresh(refreshToken, now, users)
        /\ UNCHANGED <<now, users, assessments, cache, analyzedAt, service, issued, inflight, consents, attempts, passed>>

\* The strings given to encryptData: the empty string, names, an astral
\* character, strings with a lone surrogate, and a string of the envelope
\* form.
Plaintexts ==
    {Plain(<< >>), Plain(<<"A", "d", "a">>), Plain(<<HighSurrogate, LowSurrogate>>),
     Plain(<<HighSurrogate>>), Plain(<<"A", LowSurrogate>>),
     Envelope("k0", "iv1", Plain(<<"B", "o", "b">>))}

\* The strings given to decryptData: envelopes written under the key of the
\* process or under an earlier key, damaged envelopes, and a plain name.
Ciphertexts ==
    LET sealed == {Envelope(k, iv, Plain(<<"A", "d", "a">>)) : k \in Keys, iv \in IVs}
    IN sealed \cup {Damaged(e) : e \in sealed} \cup {Plain(<<"A", "d", "a">>)}

\* The forms in which a name may be found stored.
StoredNames(name) ==
    {Envelope(k, "iv1", name) : k \in Keys}
        \cup {Damaged(Envelope(ENCRYPTION_KEY, "iv1", name)), name}

\* The reads and saves of one stored user start from a collection that
\* holds the user with names in any stored form.
InitData ==
    /\ now = 0
    /\ \E firstName \in StoredNames(Plain(<<"A", "d", "a">>)),
          lastName \in StoredNames(Plain(<<"B", "o", "b">>)) :
           users = [u \in Users |->
                       IF u = "u1"
                       THEN [RegisteredUser(u) EXCEPT !.firstName = firstName,
                                                      !.lastName = lastName]
                       ELSE NONE]
    /\ assessments = [i \in Ids |-> NONE]
    /\ cache = << >>
    /\ resp = NoResponse
    /\ analyzedAt = [i \in Ids |-> -1]
    /\ service = "services/aiService.js"
    /\ issued = << >>
    /\ inflight = NoRequests
    /\ consents = [u \in Users |-> NONE]
    /\ attempts = NoAttempts
    /\ passed = [ip \in IPs |-> << >>]

EncryptData ==
    \E text \in Plaintexts, iv \in IVs :
        /\ resp' = [op |-> "encryptData", text |-> text, result |-> encryptData(text, iv)]
        /\ UNCHANGED <<now, users, assessments, cache, analyzedAt, service, issued, inflight, consents, attempts, passed>>

\* decryptData of a stored string, or of what the last encryptData returned.
DecryptData ==
    \/ \E encryptedText \in Ciphertexts :
           /\ resp' = [op |-> "decryptData", encryptedText |-> encryptedText,
                       plaintext |-> NONE, result |-> decryptData(encryptedText)]
           /\ UNCHANGED <<now, users, assessments, cache, analyzedAt, service, issued, inflight, consents, attempts, passed>>
    \/ /\ resp.op = "encryptData"
       /\ resp' = [op |-> "decryptData", encryptedText |-> resp.result,
                   plaintext |-> resp.text, result |-> decryptData(resp.result)]
       /\ UNCHANGED <<now, users, assessments, cache, analyzedAt, service, issued, inflight, consents, attempts, passed>>

GetProfile ==
    \E token \in RequestTokens :
        LET auth == authenticate(token, now, users) IN
        /\ auth.next
        /\ resp' = [op |-> "GET /profile", user |-> auth.userId]
                   @@ getProfile(auth.userId, users)
        /\ UNCHANGED <<now, users, assessments, cache, analyzedAt, service, issued, inflight, consents, attempts, passed>>

GetExport ==
    \E token \in RequestTokens :
        LET auth == authenticate(token, now, users) IN
        /\ auth.next
        /\ requireEmailVerification(users[auth.userId])
        /\ resp' = [op |-> "GET /export", user |-> auth.userId]
                   @@ getExport(auth.userId, users)
        /\ UNCHANGED <<now, users, assessments, cache, analyzedAt, service, issued, inflight, consents, attempts, passed>>

\* Requests in progress at once start from one registered user and one
\* email that is not registered.
InitRace ==
    /\ now = 0
    /\ users = [u \in Users |-> IF u = "u1" THEN RegisteredUser(u) ELSE NONE]
    /\ assessments = [i \in Ids |-> NONE]
    /\ cache = << >>
    /\ resp = NoResponse
    /\ analyzedAt = [i \in Ids |-> -1]
    /\ service = "services/aiService.js"
    /\ issued = << >>
    /\ inflight = NoRequests
    /\ consents = [u \in Users |-> NONE]
    /\ attempts = NoAttempts
    /\ passed = [ip \in IPs |-> << >>]

\* POST /api/auth/register until it awaits user.save()
RegisterFind ==
    \E r \in Requests, email \in Users, firstName \in FirstNames, lastName \in LastNames :
        LET f == registerFind(email, firstName, lastName, Len(issued) + 1, now, users) IN
        /\ inflight[r] = NONE
        /\ Len(issued) < MaxTokens
        /\ IF f.user = NONE THEN
              /\ resp' = [op |-> "POST /register", request |-> r, user |-> email] @@ f.res
              /\ UNCHANGED <<issued, inflight, consents, attempts, passed>>
           ELSE
              /\ resp' = NoResponse
              /\ issued' = Append(issued, Issue("emailVerificationToken", email,
                                                now + EmailVerificationTtl))
              /\ inflight' = [inflight EXCEPT ![r] = [op |-> "POST /register", user |-> f.user]]
        /\ UNCHANGED <<now, users, assessments, cache, analyzedAt, service, consents, attempts, passed>>

\* POST /api/auth/register from user.save() on
RegisterSave ==
    \E r \in Requests, draws \in IvDraws :
        /\ inflight[r] # NONE
        /\ inflight[r].op = "POST /register"
        /\ LET s == registerSave(inflight[r].user, draws, users) IN
           /\ users' = [users EXCEPT ![inflight[r].user.email] = s.stored]
           /\ resp' = [op |-> "POST /register", request |-> r,
                       user |-> inflight[r].user.email] @@ s.res
        /\ inflight' = [inflight EXCEPT ![r] = NONE]
        /\ UNCHANGED <<now, assessments, cache, analyzedAt, service, issued, consents, attempts, passed>>

\* POST /api/assessments through authenticate and requireEmailVerification
PostAssessmentAuth ==
    \E r \in Requests, token \in RequestTokens :
        LET auth == authenticate(token, now, users) IN
        /\ inflight[r] = NONE
        /\ auth.next
        /\ requireEmailVerification(users[auth.userId])
        /\ resp' = NoResponse
        /\ inflight' = [inflight EXCEPT ![r] = [op |-> "POST /", userId |-> auth.userId]]
        /\ UNCHANGED <<now, users, assessments, cache, analyzedAt, service, issued, consents, attempts, passed>>

\* POST /api/assessments from its handler on
PostAssessmentSave ==
    \E r \in Requests, id \in Ids, up \in UpstreamBehaviours :
        /\ inflight[r] # NONE
        /\ inflight[r].op = "POST /"
        /\ assessments[id] = NONE
        /\ LET p == postAssessment(service, inflight[r].userId, id, RequiredFields, up,
                                   TRUE, TRUE, now) IN
           /\ assessments' = [assessments EXCEPT ![id] = p.stored]
           /\ analyzedAt' = [analyzedAt EXCEPT ![id] = IF p.analyzedOk THEN now ELSE -1]
           /\ resp' = [op |-> "POST /", request |-> r, id |-> id,
                       client |-> inflight[r].userId] @@ p.res
        /\ inflight' = [inflight EXCEPT ![r] = NONE]
        /\ UNCHANGED <<now, users, cache, service, issued, consents, attempts, passed>>

\* DELETE /api/users/account until it awaits User.findByIdAndDelete
DeleteAccountAssessments ==
    \E r \in Requests, token \in RequestTokens, passwordOk \in BOOLEAN :
        LET auth == authenticate(token, now, users) IN
        /\ inflight[r] = NONE
        /\ auth.next
        /\ requireEmailVerification(users[auth.userId])
        /\ LET d == deleteAccountAssessments(auth.userId, passwordOk, assessments) IN
           /\ assessments' = d.coll
           /\ analyzedAt' = [i \in Ids |-> IF d.coll[i] = NONE THEN -1 ELSE analyzedAt[i]]
           /\ IF d.res = NONE THEN
                 /\ resp' = NoResponse
                 /\ inflight' = [inflight EXCEPT
                                    ![r] = [op |-> "DELETE /account", userId |-> auth.userId]]
              ELSE
                 /\ resp' = [op |-> "DELETE /account", request |-> r,
                             user |-> auth.userId] @@ d.res
                 /\ UNCHANGED inflight
        /\ UNCHANGED <<now, users, cache, service, issued, consents, attempts, passed>>

\* DELETE /api/users/account from User.findByIdAndDelete on
DeleteAccountUser ==
    \E r \in Requests :
        /\ inflight[r] # NONE
        /\ inflight[r].op = "DELETE /account"
        /\ LET d == deleteAccountUser(inflight[r].userId, users) IN
           /\ users' = d.store
           /\ resp' = [op |-> "DELETE /account", request |-> r,
                       user |-> inflight[r].userId] @@ d.res
        /\ inflight' = [inflight EXCEPT ![r] = NONE]
        /\ UNCHANGED <<now, assessments, cache, analyzedAt, service, issued, consents, attempts, passed>>

\* What the upstream may do over one call that is followed attempt by
\* attempt: also a body that stalls, and 4xx and 5xx answers with and
\* without the words of a transient error in their text.
CallBehaviours ==
    UpstreamBehaviours \cup
    { <<Stall>>, <<Reset, Stall>>, <<Status(404, {})>>, <<Status(404, {"timeout"})>>,
      <<Status(503, {})>>, <<Reset, Reset, Json(StructuredOnly)>> }

\* What the upstream may do to the one request of healthCheck.
HealthOutcomes ==
    {Abort, Refused, Reset, Stall, Status(200, {}), Status(404, {}), Status(503, {})}

\* aiService.analyzeAssessment(assessment) is called.  The service keeps no
\* state between calls: calls are followed one at a time.
CallAnalyze ==
    \E r \in Requests, up \in CallBehaviours :
        /\ inflight = NoRequests
        /\ inflight' = [inflight EXCEPT ![r] = Attempt(up, 1, << >>)]
        /\ resp' = NoResponse
        /\ UNCHANGED <<now, users, assessments, cache, analyzedAt, service, issued, consents, attempts, passed>>

\* fetch() settles: it rejects with a network error, or it resolves with the
\* headers of the answer and the handler calls clearTimeout.  An upstream
\* that never answers (Abort) settles nothing.
FetchSettles ==
    \E r \in Requests :
        /\ inflight[r] # NONE
        /\ inflight[r].op = "analyzeAssessment"
        /\ inflight[r].at = "fetch"
        /\ LET o == AttemptOutcome(inflight[r].up, inflight[r].attempt) IN
           /\ o # Abort
           /\ IF o.kind = "error" THEN
                 /\ inflight' = [inflight EXCEPT
                                    ![r] = settle(inflight[r], AttemptResult(o), now).call]
                 /\ resp' = settle(inflight[r], AttemptResult(o), now).resp
              ELSE
                 /\ inflight' = [inflight EXCEPT ![r].at = "body", ![r].timer = FALSE]
                 /\ resp' = NoResponse
        /\ UNCHANGED <<now, users, assessments, cache, analyzedAt, service, issued, consents, attempts, passed>>

\* The abort timer of the attempt fires while the attempt awaits an
\* upstream that does not answer: the await rejects with an AbortError.
TimerFires ==
    \E r \in Requests :
        /\ inflight[r] # NONE
        /\ inflight[r].op = "analyzeAssessment"
        /\ inflight[r].timer
        /\ LET o == AttemptOutcome(inflight[r].up, inflight[r].attempt) IN
           \/ inflight[r].at = "fetch" /\ o = Abort
           \/ inflight[r].at = "body" /\ o.kind = "stall"
        /\ inflight' = [inflight EXCEPT
                           ![r] = settle(inflight[r], AttemptResult(Abort), now).call]
        /\ resp' = settle(inflight[r], AttemptResult(Abort), now).resp
        /\ UNCHANGED <<now, users, assessments, cache, analyzedAt, service, issued, consents, attempts, passed>>

\* response.text() or response.json() settles, and the attempt ends.  A
\* body that stalls settles nothing.
BodySettles ==
    \E r \in Requests :
        /\ inflight[r] # NONE
        /\ inflight[r].op = "analyzeAssessment"
        /\ inflight[r].at = "body"
        /\ LET o == AttemptOutcome(inflight[r].up, inflight[r].attempt) IN
           /\ o.kind # "stall"
           /\ inflight' = [inflight EXCEPT
                              ![r] = settle(inflight[r], AttemptResult(o), now).call]
           /\ resp' = settle(inflight[r], AttemptResult(o), now).resp
        /\ UNCHANGED <<now, users, assessments, cache, analyzedAt, service, issued, consents, attempts, passed>>

\* sleep() resolves and makeAIRequest calls itself for the next attempt.
SleepEnds ==
    \E r \in Requests :
        /\ inflight[r] # NONE
        /\ inflight[r].op = "analyzeAssessment"
        /\ inflight[r].at = "sleep"
        /\ inflight' = [inflight EXCEPT
                           ![r] = Attempt(inflight[r].up, inflight[r].attempt + 1,
                                          inflight[r].slept)]
        /\ resp' = NoResponse
        /\ UNCHANGED <<now, users, assessments, cache, analyzedAt, service, issued, consents, attempts, passed>>

\* GET /api/ai/health
GetAiHealth ==
    \E o \in HealthOutcomes :
        /\ resp' = [op |-> "GET /api/ai/health", upstream |-> o] @@ aiHealth(o)
        /\ UNCHANGED <<now, users, assessments, cache, analyzedAt, service, issued, inflight, consents, attempts, passed>>

\* A user who has changed a consent preference 49 times, one change per
\* request, since the consent document was created.
MaxConsentSaves == 2
ChangedBefore == HistoryCap - 1

InitConsent ==
    /\ now = 0
    /\ users = [u \in Users |-> IF u \in Accounts THEN RegisteredUser(u) ELSE NONE]
    /\ assessments = [i \in Ids |-> NONE]
    /\ cache = << >>
    /\ resp = NoResponse
    /\ analyzedAt = [i \in Ids |-> -1]
    /\ service = "services/aiService.js"
    /\ issued = << >>
    /\ inflight = NoRequests
    /\ consents = [u \in Users |->
                      IF u \in Accounts
                      THEN [analytics |-> TRUE, communications |-> FALSE,
                            research |-> FALSE,
                            consentHistory |->
                                [i \in 1..ChangedBefore |-> [seq |-> i, by |-> "r1"]],
                            version |-> ChangedBefore]
                      ELSE NONE]
    /\ attempts = NoAttempts
    /\ passed = [ip \in IPs |-> << >>]

\* PUT /api/consent up to the await of the find in updateConsent.
PutConsent ==
    \E r \in Requests, token \in RequestTokens, preferences \in Preferences :
        LET auth == authenticate(token, now, users) IN
        /\ inflight[r] = NONE
        /\ IF ~auth.next
           THEN /\ resp' = [op |-> "PUT /api/consent", user |-> ""]
                            @@ auth.res
                /\ UNCHANGED <<inflight, consents>>
           ELSE /\ findOrCreateForUser(auth.userId, consents).version
                       < ChangedBefore + MaxConsentSaves
                /\ consents' = [consents EXCEPT
                                    ![auth.userId] = findOrCreateForUser(auth.userId, consents)]
                /\ inflight' = [inflight EXCEPT
                                    ![r] = [op |-> "PUT /api/consent",
                                            userId |-> auth.userId,
                                            preferences |-> preferences,
                                            consent |-> Loaded(consents'[auth.userId])]]
                /\ resp' = NoResponse
        /\ UNCHANGED <<now, users, assessments, cache, analyzedAt, service, issued, attempts, passed>>

\* POST /api/consent/withdraw-all up to the await of the find.
WithdrawAll ==
    \E r \in Requests, token \in RequestTokens :
        LET auth == authenticate(token, now, users) IN
        /\ inflight[r] = NONE
        /\ IF ~auth.next
           THEN /\ resp' = [op |-> "POST /api/consent/withdraw-all", user |-> ""]
                            @@ auth.res
                /\ UNCHANGED <<inflight, consents>>
           ELSE /\ findOrCreateForUser(auth.userId, consents).version
                       < ChangedBefore + MaxConsentSaves
                /\ consents' = [consents EXCEPT
                                    ![auth.userId] = findOrCreateForUser(auth.userId, consents)]
                /\ inflight' = [inflight EXCEPT
                                    ![r] = [op |-> "POST /api/consent/withdraw-all",
                                            userId |-> auth.userId,
                                            preferences |-> [key \in {"analytics", "communications", "research"} |-> FALSE],
                                            consent |-> Loaded(consents'[auth.userId])]]
                /\ resp' = NoResponse
        /\ UNCHANGED <<now, users, assessments, cache, analyzedAt, service, issued, attempts, passed>>

\* The rest of updateConsent and the response of either route.
ConsentSave ==
    \E r \in Requests :
        /\ inflight[r] # NONE
        /\ inflight[r].op \in {"PUT /api/consent", "POST /api/consent/withdraw-all"}
        /\ LET call == inflight[r]
               u == updateConsent(call.consent, call.preferences, r, consents[call.userId])
           IN /\ consents' = [consents EXCEPT ![call.userId] = u.stored]
              /\ resp' = [op |-> call.op, user |-> call.userId]
                          @@ (IF ~u.thrown
                              THEN Ok(200)
                              ELSE IF call.op = "PUT /api/consent"
                                   THEN Err(500, "CONSENT_UPDATE_FAILED")
                                   ELSE Err(500, "CONSENT_WITHDRAWAL_FAILED"))
        /\ inflight' = [inflight EXCEPT ![r] = NONE]
        /\ UNCHANGED <<now, users, assessments, cache, analyzedAt, service, issued, attempts, passed>>

\* The tokens of a response, as the history remembers them: each with the
\* name it had in the response.
Pair(tokens) ==
    <<[kind |-> "accessToken", token |-> tokens.accessToken],
      [kind |-> "refreshToken", token |-> tokens.refreshToken]>>

MaxPairs == 2

\* A token within an hour of its expiry gets a new pair in the X-New-*
\* response headers of authenticate.
oneHour == 3600

\* The instants around the expiry of an access token issued at 0, and the
\* expiry of the refresh token issued with it.
JwtInstants == {0, JWT_EXPIRES_IN - 1, JWT_EXPIRES_IN, JWT_REFRESH_EXPIRES_IN}

\* Time passes to a later instant.
Later ==
    /\ \E t \in JwtInstants : t > now /\ now' = t
    /\ resp' = NoResponse
    /\ UNCHANGED <<users, assessments, cache, analyzedAt, service, issued, inflight, consents, attempts, passed>>

\* POST /api/auth/login, with the token pair of its response.
LoginTokens ==
    \E u \in Users, passwordOk \in BOOLEAN, draws \in IvDraws :
        LET r == login(u, passwordOk, draws, now, users) IN
        /\ Len(issued) < 2 * MaxPairs
        /\ users' = [users EXCEPT ![u] = r.stored]
        /\ issued' = IF r.res.status = 200
                      THEN issued \o Pair(createTokenResponse(u, now))
                      ELSE issued
        /\ resp' = [op |-> "POST /login", user |-> u] @@ r.res
        /\ UNCHANGED <<now, assessments, cache, analyzedAt, service, inflight, consents, attempts, passed>>

\* POST /api/auth/refresh with a token the API has issued, under either
\* name, in the refreshToken field of the body.
RefreshIssued ==
    \E i \in DOMAIN issued :
        LET r == handleTokenRefresh(issued[i].token, now, users) IN
        /\ Len(issued) < 2 * MaxPairs \/ r.status # 200
        /\ issued' = IF r.status = 200
                      THEN issued \o Pair(createTokenResponse(r.userId, now))
                      ELSE issued
        /\ resp' = [op |-> "POST /refresh", presented |-> issued[i]] @@ r
        /\ UNCHANGED <<now, users, assessments, cache, analyzedAt, service, inflight, consents, attempts, passed>>

\* A request to a private route with a token the API has issued, under
\* either name, as the bearer token.  The route itself is not followed.
BearerIssued ==
    \E i \in DOMAIN issued :
        LET auth == authenticate(issued[i].token, now, users)
            needsRefresh == auth.next /\ issued[i].token.exp - now < oneHour
        IN
        /\ Len(issued) < 2 * MaxPairs \/ ~needsRefresh
        /\ issued' = IF needsRefresh
                      THEN issued \o Pair(createTokenResponse(auth.userId, now))
                      ELSE issued
        /\ resp' = [op |-> "authenticate", presented |-> issued[i], next |-> auth.next]
                   @@ (IF auth.next THEN Ok(200) @@ [userId |-> auth.userId] ELSE auth.res)
        /\ UNCHANGED <<now, users, assessments, cache, analyzedAt, service, inflight, consents, attempts, passed>>

\* The forms in which a hemoglobin of 12 g/dL may be found stored: sealed
\* under the key of the process or under an earlier key, damaged, or as
\* the number itself.
StoredLabs ==
    LET sealed == {Envelope(k, iv, Plain(<<"1", "2">>)) : k \in Keys, iv \in IVs}
    IN sealed \cup {Damaged(e) : e \in sealed} \cup {Num(12)}

\* The reads and saves of one stored assessment start from a collection
\* that holds it, completed, with its lab value in any stored form.
InitLab ==
    /\ now = 0
    /\ users = [u \in Users |-> RegisteredUser(u)]
    /\ \E hemoglobin \in StoredLabs :
           assessments =
               [i \in Ids |->
                   [NewAssessment("u1", RequiredFields) EXCEPT
                        !.status = "completed", !.completedAt = 0]
                       @@ [hemoglobin |-> hemoglobin]]
    /\ cache = << >>
    /\ resp = NoResponse
    /\ analyzedAt = [i \in Ids |-> -1]
    /\ service = "services/aiService.js"
    /\ issued = << >>
    /\ inflight = NoRequests
    /\ consents = [u \in Users |-> NONE]
    /\ attempts = NoAttempts
    /\ passed = [ip \in IPs |-> << >>]

\* decryptHealthData of a record as it may be found stored.
DecryptHealthData ==
    \E hemoglobin \in StoredLabs :
        /\ resp' = [op |-> "decryptHealthData", data |-> [hemoglobin |-> hemoglobin],
                    result |-> decryptHealthData([hemoglobin |-> hemoglobin])]
        /\ UNCHANGED <<now, users, assessments, cache, analyzedAt, service, issued, inflight, consents, attempts, passed>>

\* encryptHealthData of a record with a number, as pre('save') calls it on
\* a new document.
EncryptHealthData ==
    \E value \in {8, 12}, iv \in IVs :
        /\ resp' = [op |-> "encryptHealthData", data |-> [hemoglobin |-> Num(value)],
                    result |-> encryptHealthData([hemoglobin |-> Num(value)], iv)]
        /\ UNCHANGED <<now, users, assessments, cache, analyzedAt, service, issued, inflight, consents, attempts, passed>>

\* GET /api/assessments/:id on a stored assessment: Assessment.findById
\* runs the findOne hook on the document it returns.
GetStored ==
    \E token \in RequestTokens, id \in Ids :
        LET auth == authenticate(token, now, users)
            found == [assessments EXCEPT ![id] = AssessmentPostFind(@)]
        IN
        /\ auth.next
        /\ resp' = [op |-> "GET /:id", id |-> id, client |-> auth.userId]
                   @@ getAssessment(auth.userId, id, found)
        /\ UNCHANGED <<now, users, assessments, cache, analyzedAt, service, issued, inflight, consents, attempts, passed>>

\* POST /api/assessments/:id/analyze on a stored assessment: the document
\* is loaded through the findOne hook and, after a successful analysis,
\* validated and saved through pre('save').
AnalyzeStored ==
    \E token \in RequestTokens, id \in Ids, up \in UpstreamBehaviours,
       dbOk \in BOOLEAN, iv \in IVs :
        LET auth == authenticate(token, now, users)
            found == [assessments EXCEPT ![id] = AssessmentPostFind(@)]
            r == analyzeRoute(service, auth.userId, id, up,
                              dbOk /\ LabValidates(found[id], assessments[id]), now, found)
        IN
        /\ auth.next
        /\ assessments' = [assessments EXCEPT
                               ![id] = IF r.analyzedOk
                                       THEN encryptOnSave(r.stored, @, iv)
                                       ELSE @]
        /\ analyzedAt' = [analyzedAt EXCEPT ![id] = IF r.analyzedOk THEN now ELSE @]
        /\ resp' = [op |-> "POST /:id/analyze", id |-> id, client |-> auth.userId,
                    loaded |-> found[id].hemoglobin, called |-> r.called] @@ r.res
        /\ UNCHANGED <<now, users, cache, service, issued, inflight, consents, attempts, passed>>

\* The instants just before and just after the end of a window that began
\* at 0.
LimiterInstants == {0, windowMs - 1, windowMs + 1}

\* Time passes to a later instant.
Elapse ==
    /\ \E t \in LimiterInstants : t > now /\ now' = t
    /\ resp' = NoResponse
    /\ UNCHANGED <<users, assessments, cache, analyzedAt, service, issued, inflight, consents, attempts, passed>>

\* A request to one of the routes behind sensitiveSecurityMiddleware
\* reaches the limiter.  What the route does after next() is not followed.
SensitiveRequest ==
    \E ip \in IPs :
        LET r == sensitiveEndpointLimiter(ip, now, attempts) IN
        /\ attempts' = r.attempts
        /\ passed' = IF r.next THEN [passed EXCEPT ![ip] = Append(@, now)] ELSE passed
        /\ resp' = [op |-> "sensitiveEndpointLimiter", ip |-> ip, next |-> r.next] @@ r.res
        /\ UNCHANGED <<now, users, assessments, cache, analyzedAt, service, issued, inflight, consents>>

\* The analysis routes never read the response cache and GET /:id never
\* writes a document: the creation and analysis of an assessment (Next) and
\* its reads through the cache (NextRead) are followed separately.
Next == Tick \/ PostAssessment \/ DeleteAssessment \/ PostAnalyze

NextRead == Tick \/ PostAssessment \/ DeleteAssessment \/ GetAssessment

Spec == Init /\ [][Next]_vars

SpecFallback == InitFallback /\ [][Next]_vars

SpecRead == Init /\ [][NextRead]_vars

\* The consent routes write the Consent collection only.
NextConsent == PutConsent \/ WithdrawAll \/ ConsentSave

SpecConsent == InitConsent /\ [][NextConsent]_vars

\* The tokens login and refresh hand out, presented to the two verifiers.
NextJwt == Later \/ LoginTokens \/ RefreshIssued \/ BearerIssued

SpecJwt == Init /\ [][NextJwt]_vars

\* The lab values of a stored assessment, read and saved again.
NextLab == Tick \/ DecryptHealthData \/ EncryptHealthData \/ GetStored \/ AnalyzeStored

SpecLab == InitLab /\ [][NextLab]_vars

\* The limiter keeps its own Map and reads nothing else.
NextLimiter == Elapse \/ SensitiveRequest

SpecLimiter == Init /\ [][NextLimiter]_vars

\* The account routes write the User collection only.  The routes that
\* work on the verification and reset tokens are followed under NextTokens.
NextAccount ==
    Tick \/ Register \/ Login \/ ChangePassword \/ PutProfile \/ PostRefresh

SpecAccount == InitAccount /\ [][NextAccount]_vars

\* The codec, and the reads and saves of a stored user.
NextData == Tick \/ EncryptData \/ DecryptData \/ Login \/ GetProfile \/ GetExport

SpecData == InitData /\ [][NextData]_vars

\* One call of the AI service, followed attempt by attempt.
NextCall ==
    \/ Tick \/ CallAnalyze \/ FetchSettles \/ TimerFires \/ BodySettles \/ SleepEnds
    \/ GetAiHealth

SpecCall == Init /\ [][NextCall]_vars

\* The event loop runs every callback that is ready: a settled await and a
\* timer that is due are not postponed for ever.
SpecCallLive ==
    /\ SpecCall
    /\ WF_vars(FetchSettles) /\ WF_vars(TimerFires)
    /\ WF_vars(BodySettles) /\ WF_vars(SleepEnds)

\* Requests whose handlers are suspended at an await while others run.
NextRace ==
    \/ RegisterFind \/ RegisterSave \/ PostAssessmentAuth \/ PostAssessmentSave
    \/ DeleteAccountAssessments \/ DeleteAccountUser

SpecRace == InitRace /\ [][NextRace]_vars

\* The life of the email-verification and password-reset tokens.
NextTokens == Wait \/ Register \/ VerifyEmail \/ ForgotPassword \/ ResetPassword

SpecTokens == InitAccount /\ [][NextTokens]_vars

-----------------------------------------------------------------------------
(* Properties                                                              *)

\* C1: an authenticated user who requests GET /api/assessments/:id for an
\* existing assessment owned by a different user receives 403
\* ACCESS_DENIED, whatever requests came before.
C1_OtherUserGets403 ==
    (/\ resp.op = "GET /:id"
     /\ resp.client # ""
     /\ assessments[resp.id] # NONE
     /\ assessments[resp.id].userId # resp.client)
    => (resp.status = 403 /\ resp.code = "ACCESS_DENIED")

\* C2: a response memoryCache returns from its store was stored while
\* serving the user who makes the request.  (A 200 of GET /:id is only
\* produced for the owner, so the userId of a stored body is the user whose
\* request stored it.)
C2_CacheHitSameUser ==
    (resp.op = "GET /:id" /\ resp.fromCache)
    => resp.data.assessment.userId = resp.client

\* C3: when the external call fails after all retries, or answers without
\* any usable field, analyzeAssessment returns success:true with an
\* analysis whose modelVersion starts with 'fallback-rules'.
C3_FallbackInsteadOfError ==
    (/\ resp.op \in {"POST /", "POST /:id/analyze"}
     /\ resp.called
     /\ resp.upstream \in {"failed", "unusable"})
    => (/\ resp.result.success
        /\ resp.result.data # NONE
        /\ resp.result.data.modelVersion.name = "fallback-rules")

\* C4: POST /:id/analyze by the owner of a complete assessment, outside the
\* cooldown, responds 503 when the external call fails.
C4_AnalyzeFailureIs503 ==
    (/\ resp.op = "POST /:id/analyze"
     /\ resp.client # ""
     /\ assessments[resp.id] # NONE
     /\ assessments[resp.id].userId = resp.client
     /\ isComplete(assessments[resp.id])
     /\ (resp.sinceAnalysis = -1 \/ resp.sinceAnalysis >= minInterval)
     /\ resp.upstream = "failed")
    => resp.status = 503

\* An analyze request five minutes after a stored analysis meets a failing
\* upstream and is answered 503.
C4_Witness ==
    /\ resp.op = "POST /:id/analyze"
    /\ resp.client # ""
    /\ resp.called
    /\ resp.sinceAnalysis >= minInterval
    /\ resp.upstream = "failed"
    /\ resp.status = 503

\* C5: POST / with valid fields responds 201 whenever the initial save
\* succeeds, whatever the AI step does, and the document of the initial
\* save stays stored.
C5_CreatedOnceFirstSaveSucceeds ==
    (resp.op = "POST /" /\ resp.client # "" /\ resp.firstSaved)
    => (/\ resp.status = 201
        /\ assessments[resp.id] # NONE
        /\ assessments[resp.id].userId = resp.client
        /\ assessments[resp.id].completedAt = now)

\* The AI step succeeded but its result could not be saved: the response is
\* 201 and the collection holds the document of the initial save.
C5_Witness ==
    /\ resp.op = "POST /"
    /\ resp.firstSaved
    /\ resp.called
    /\ resp.result.success
    /\ resp.status = 201
    /\ assessments[resp.id] # NONE
    /\ assessments[resp.id].status = "completed"

\* C6: POST / with all required fields returns, whenever analyzeAssessment
\* resolves with an analysis, status 'analyzed' and an aiAnalysis with a
\* confidence.
C6_CreateReturnsAnalysis ==
    (/\ resp.op = "POST /"
     /\ resp.client # ""
     /\ resp.firstSaved
     /\ resp.called
     /\ resp.result.success)
    => (resp.body.status = "analyzed" /\ resp.body.aiAnalysis # NONE)

\* C7: an analyze request of the owner made less than minInterval after an
\* analysis of the assessment succeeded is answered 429
\* ANALYSIS_TOO_FREQUENT without a call of the AI service.
C7_CooldownAfterSuccess ==
    (/\ resp.op = "POST /:id/analyze"
     /\ resp.client # ""
     /\ assessments[resp.id] # NONE
     /\ assessments[resp.id].userId = resp.client
     /\ resp.sinceAnalysis # -1
     /\ resp.sinceAnalysis < minInterval)
    => (resp.status = 429 /\ resp.code = "ANALYSIS_TOO_FREQUENT" /\ ~resp.called)

C9_RefreshTellsExpiredFromInvalid ==
    (resp.op = "POST /refresh" /\ resp.refreshToken # NONE
     /\ ~jwtVerify(resp.refreshToken, now).ok)
    => (/\ resp.status = 401
        /\ resp.code = IF resp.refreshToken.sig = "valid"
                       THEN "REFRESH_TOKEN_EXPIRED" ELSE "INVALID_REFRESH_TOKEN")

\* C10: the persisted firstName and lastName of every User are encrypted
\* envelopes.
C10_NamesStoredEncrypted ==
    \A u \in Users :
        users[u] # NONE =>
            (isEncryptedValue(users[u].firstName) /\ isEncryptedValue(users[u].lastName))

\* C15: completedAt is set on the save in which the status first becomes
\* 'completed' (a stored document that is completed or analyzed has it, a
\* draft has not), and no later save of the document changes it.
C15_CompletedAtSetOnce ==
    /\ [](\A id \in Ids :
            assessments[id] # NONE =>
                ((assessments[id].status \in {"completed", "analyzed"})
                 <=> assessments[id].completedAt # -1))
    /\ [][\A id \in Ids :
            (/\ assessments[id] # NONE
             /\ assessments'[id] # NONE
             /\ assessments[id].completedAt # -1)
            => assessments'[id].completedAt = assessments[id].completedAt]_vars

\* A re-analysis saved later than the creation left completedAt at the time
\* of the creation.
C15_Witness ==
    /\ resp.op = "POST /:id/analyze"
    /\ resp.status = 200
    /\ assessments[resp.id].status = "analyzed"
    /\ assessments[resp.id].completedAt # -1
    /\ assessments[resp.id].completedAt < now

C18_RoundTrip ==
    (resp.op = "decryptData" /\ resp.plaintext # NONE) => resp.result = resp.plaintext

\* C19: decryptData of a well-formed envelope that does not authenticate
\* under the key of the process (written under another key, or damaged)
\* returns its input unchanged and does not throw.
C19_FailOpen ==
    (/\ resp.op = "decryptData"
     /\ isEncryptedValue(resp.encryptedText)
     /\ resp.encryptedText.key # ENCRYPTION_KEY)
    => resp.result = resp.encryptedText

C19_Witness ==
    /\ resp.op = "decryptData"
    /\ isEncryptedValue(resp.encryptedText)
    /\ resp.encryptedText.key = "none"
    /\ resp.result = resp.encryptedText

\* C11: every read that hands out a User record returns each encrypted
\* field decrypted whenever the key of the process decrypts it.
C11_ReadsDecrypt ==
    (resp.op \in {"GET /profile", "GET /export"} /\ resp.status = 200)
    => (/\ resp.body.firstName = decryptData(users[resp.user].firstName)
        /\ resp.body.lastName = decryptData(users[resp.user].lastName))

\* C12: the firstName and lastName of the user summary that register and
\* login return are the plaintext names, never an envelope.
C12_SummaryNamesPlain ==
    (resp.op \in {"POST /register", "POST /login"} /\ resp.status \in {200, 201})
    => (resp.body.firstName \in FirstNames /\ resp.body.lastName \in LastNames)

\* C20: a user whose stored names are envelopes the key does not open is
\* loaded with the names as stored, and a login, which saves the user with a
\* new lastLogin, does not fail and leaves the stored names as they were.
C20_UndecryptableUserUsable ==
    [][\A u \in Users :
          (/\ users[u] # NONE
           /\ isEncryptedValue(users[u].firstName)
           /\ users[u].firstName.key # ENCRYPTION_KEY
           /\ isEncryptedValue(users[u].lastName)
           /\ users[u].lastName.key # ENCRYPTION_KEY
           /\ resp'.op \in {"GET /profile", "POST /login"}
           /\ resp'.user = u)
          => (/\ resp'.status \in {200, 401}
              /\ resp'.status = 200 => resp'.body = UserSummary(users[u])
              /\ (resp'.op = "POST /login" /\ resp'.status = 200)
                     => users'[u].lastLogin = now
              /\ users'[u].firstName = users[u].firstName
              /\ users'[u].lastName = users[u].lastName)]_vars

C20_Witness ==
    /\ resp.op = "POST /login"
    /\ resp.status = 200
    /\ users[resp.user].lastLogin = now
    /\ now > 0
    /\ isEncryptedValue(users[resp.user].firstName)
    /\ users[resp.user].firstName.key = "k0"
    /\ isEncryptedValue(users[resp.user].lastName)
    /\ users[resp.user].lastName.key = "none"

\* C17: a verification or reset token that has been used, or whose expiry
\* has passed, or (a reset token) after which a newer reset token was issued
\* for the same user, is rejected with 400 INVALID_TOKEN by every later
\* request that presents it, and the request changes no user.
C17_TokensSingleUseAndExpiring ==
    [][(/\ resp'.op \in {"POST /verify-email", "POST /reset-password"}
        /\ resp'.token <= Len(issued)
        /\ \/ issued[resp'.token].used
           \/ issued[resp'.token].expires <= now
           \/ /\ issued[resp'.token].kind = "passwordResetToken"
              /\ \E newer \in (resp'.token + 1)..Len(issued) :
                     /\ issued[newer].kind = "passwordResetToken"
                     /\ issued[newer].user = issued[resp'.token].user)
       => (/\ resp'.status = 400
           /\ resp'.code = "INVALID_TOKEN"
           /\ users' = users)]_vars

C17_Witness ==
    /\ resp.op = "POST /reset-password"
    /\ resp.status = 400
    /\ resp.token < Len(issued)
    /\ issued[resp.token].kind = "passwordResetToken"
    /\ ~issued[resp.token].used
    /\ issued[resp.token].expires > now
    /\ issued[Len(issued)].kind = "passwordResetToken"
    /\ issued[Len(issued)].used

\* C13: of two POST /api/auth/register requests for one unregistered email,
\* in any interleaving, one is answered 201 and the other 409 USER_EXISTS.
C13_OneCreatedOtherConflict ==
    resp.op = "POST /register"
    => \/ resp.status = 201
       \/ resp.status = 409 /\ resp.code = "USER_EXISTS"

\* C14: once DELETE /api/users/account has completed, no assessment owned
\* by the deleted user exists, whatever requests were in flight.
C14_NoAssessmentOfDeletedUser ==
    \A id \in Ids :
        assessments[id] # NONE => users[assessments[id].userId] # NONE

C23_TransientIsRetried ==
    (/\ resp.op = "analyzeAssessment"
     /\ LET last == AttemptOutcome(resp.up, resp.attempts) IN
        \/ last \in {Abort, Reset, Refused}
        \/ last.kind = "http" /\ last.status >= 500)
    => resp.attempts = maxRetries

\* C24: makeAIRequest makes no further attempt after an attempt that was
\* answered 4xx or whose payload failed validation, whatever the text of
\* the answer.
C24_NoRetryAfter4xxOrInvalid ==
    resp.op = "analyzeAssessment"
    => \A k \in 1..(resp.attempts - 1) :
          LET o == AttemptOutcome(resp.up, k) IN
          /\ ~(o.kind = "http" /\ o.status < 500)
          /\ ~(o.kind = "json" /\ ~validateAIResponse(o.payload))

C26_AnalyzeReturns ==
    \A r \in Requests :
        (inflight[r] # NONE /\ inflight[r].op = "analyzeAssessment")
        ~> (inflight[r] = NONE)

\* C22: after any consent updates a stored consentHistory holds at most 50
\* entries, and an update only appends: the history after it is what is
\* left of the history before it once some of its oldest entries are
\* dropped, in the same order, followed by the entries the update recorded;
\* entries are dropped only when the history is left with 50.
C22_HistoryCappedAppendOnly ==
    [][\A u \in Users :
          (consents[u] # NONE /\ consents'[u] # NONE) =>
              LET h == consents[u].consentHistory
                  g == consents'[u].consentHistory
              IN /\ Len(g) <= HistoryCap
                 /\ \E j \in 1..(Len(h) + 1) :
                        /\ Len(g) >= Len(h) - j + 1
                        /\ SubSeq(g, 1, Len(h) - j + 1) = SubSeq(h, j, Len(h))
                        /\ \A i \in (Len(h) - j + 2)..Len(g) :
                               \A k \in 1..Len(h) : g[i] # h[k]
                        /\ (j > 1 => Len(g) = HistoryCap)]_vars

\* C27: for every client IP and every interval of length windowMs, the
\* limiter passes at most max requests of that IP to the next handler, and
\* a request it does not pass is answered 429 RATE_LIMIT_EXCEEDED.  (An
\* interval holding the most passes begins at one of them.)
C27_AtMostMaxPerWindow ==
    /\ \A ip \in IPs : \A i \in DOMAIN passed[ip] :
           Cardinality({j \in DOMAIN passed[ip] :
                           /\ passed[ip][j] >= passed[ip][i]
                           /\ passed[ip][j] < passed[ip][i] + windowMs}) <= max
    /\ (resp.op = "sensitiveEndpointLimiter" /\ ~resp.next) =>
           (resp.status = 429 /\ resp.code = "RATE_LIMIT_EXCEEDED")

C30_ResponseEqualsPersisted ==
    (resp.op = "POST /" /\ resp.status = 201) =>
        /\ assessments[resp.id] # NONE
        /\ resp.body.status = assessments[resp.id].status
        /\ resp.body.modelOutputs = assessments[resp.id].modelOutputs

\* A lab value that is an envelope the key of the process does not open.
Undecryptable(value) == isEncryptedValue(value) /\ decipher(value).thrown

\* C28: a lab value that is an undecryptable envelope is left as that same
\* ciphertext string by decryptHealthData and by the Assessment read hook
\* (no number or other value stands in its place), and a save of the
\* record that was loaded leaves the stored value as it was.
C28_UndecryptableLabKept ==
    [][/\ (resp'.op = "decryptHealthData" /\ Undecryptable(resp'.data.hemoglobin))
           => resp'.result.hemoglobin = resp'.data.hemoglobin
       /\ \A id \in Ids :
           (assessments[id] # NONE /\ Undecryptable(assessments[id].hemoglobin)) =>
               /\ (resp'.op = "GET /:id" /\ resp'.status = 200)
                      => resp'.data.assessment.hemoglobin = assessments[id].hemoglobin
               /\ resp'.op = "POST /:id/analyze"
                      => resp'.loaded = assessments[id].hemoglobin
               /\ assessments'[id] # NONE
                      => assessments'[id].hemoglobin = assessments[id].hemoglobin]_vars

====
